---- MODULE Spec2Model ----
(***************************************************************************)
(* Booking engine of the PBL scheduler (backend/bookings, backend/slots).  *)
(*                                                                         *)
(* The database is modelled as three tables (sets of rows) under           *)
(* PostgreSQL READ COMMITTED: a transaction reads committed rows, takes    *)
(* row locks with SELECT ... FOR UPDATE / UPDATE / DELETE, buffers its     *)
(* writes and applies them at commit; a failure discards the buffer.       *)
(* Every handler is a sequence of database statements (one step each).     *)
(* Spec, SpecAbsence and SpecWindow run each handler from start to end as  *)
(* one action (requests one at a time) from three initial tables; SpecConc *)
(* interleaves the statements of two requests; SpecRace interleaves two    *)
(* create requests and keeps their arguments and results. SpecFaculty adds *)
(* the faculty viewset actions, SpecDelete interleaves slot deletions with *)
(* bookings, SpecLock and SpecLockFair add the deadlock detector of the    *)
(* database. SpecGrant and SpecRoster follow the grants of permissions and *)
(* the two read views, SpecSlots the updates of slots, SpecStudent the     *)
(* student request layer, SpecStale the requests that write what they read *)
(* earlier. SpecToday follows the deletion of the slots of a day, SpecMove *)
(* the updates of slots that lie ahead, SpecOwner and SpecOwnerSerial the  *)
(* requests of students and faculty on bookings of others, SpecTerminal    *)
(* what follows a booking marked Absent.                                   *)
(* Time is counted in hours.                                               *)
(***************************************************************************)
EXTENDS Integers, FiniteSets, Sequences, TLC

VARIABLES now, users, slots, bookings, perms, locks, txn

vars == <<now, users, slots, bookings, perms, locks, txn>>

\* ---------------------------------------------------------------- bounds
MaxTime == 11

\* ------------------------------------------------------------- constants
STUDENT_CANCELLATION_WINDOW_HOURS == 8

None == 0 - 1

CONFIRMED == "confirmed"
CANCELLED == "cancelled"
COMPLETED == "completed"
ABSENT == "absent"

ALLOWED_SUBJECTS == {"Web Development", "Compiler Design"}

\* ------------------------------------------------------------ users table
Students == {"A", "B"}
\* F0 has no pbl_user_id
Faculty == {"F1", "F2", "F0"}
Procs == {"p1", "p2"}
GroupIds == {"", "T1", "T2"}
Reasons == {"why"}

pbl_user_id(u) ==
    CASE u = "F1" -> "pbl-f1"
      [] u = "F2" -> "pbl-f2"
      [] OTHER -> ""

\* User.email of the faculty
email(u) ==
    CASE u = "F1" -> "f1@pbl"
      [] u = "F2" -> "f2@pbl"
      [] u = "F0" -> "f0@pbl"
      [] OTHER -> ""

\* str.strip() on the team ids that occur
strip(value) ==
    CASE value = " T1 " -> "T1"
      [] value = " T2 " -> "T2"
      [] value = " " -> ""
      [] OTHER -> value

\* str.strip() on the subject values that occur
normalize_subject(value) ==
    CASE value = " Web Development " -> "Web Development"
      [] value = " Compiler Design " -> "Compiler Design"
      [] value = " " -> ""
      [] OTHER -> value

is_allowed_subject(value) == normalize_subject(value) \in ALLOWED_SUBJECTS

\* ------------------------------------------------------------------ rows
NoSlot ==
    [id |-> 0, faculty |-> "", subject |-> "", start_time |-> None,
     end_time |-> None, is_available |-> FALSE]

NoBooking ==
    [id |-> 0, slot |-> 0, student |-> "", group_id |-> "", status |-> "",
     cancelled_at |-> None, cancellation_reason |-> "", absent_at |-> None,
     updated_at |-> None]

NoPerm ==
    [student |-> "", subject |-> "", teacher_external_id |-> "",
     updated_at |-> None]

Slot(id, faculty, subject, start_time, end_time) ==
    [id |-> id, faculty |-> faculty, subject |-> subject,
     start_time |-> start_time, end_time |-> end_time, is_available |-> TRUE]

NoLocks == [slot |-> {}, user |-> {}, booking |-> {}]

Idle ==
    [pc |-> "idle", op |-> "none", slot |-> 0, student |-> "", group_id |-> "",
     booking |-> 0, force |-> FALSE, reason |-> "", faculty |-> "",
     subject |-> "", result |-> "none",
     l_slot |-> NoSlot, l_existing |-> NoBooking, l_obj |-> NoBooking,
     l_absent |-> None, w_booking |-> NoBooking, w_slot |-> NoSlot,
     w_delete |-> {}, w_unbook |-> {},
     start_time |-> None, end_time |-> None, partial |-> FALSE,
     profile_group_id |-> "", mentor_emails |-> {}]

World ==
    [now |-> now, users |-> users, slots |-> slots, bookings |-> bookings,
     perms |-> perms, locks |-> locks, txn |-> txn]

Apply(w) ==
    /\ now' = w.now
    /\ users' = w.users
    /\ slots' = w.slots
    /\ bookings' = w.bookings
    /\ perms' = w.perms
    /\ locks' = w.locks
    /\ txn' = w.txn

\* --------------------------------------------------------------- queries
\* Slot.objects.get(pk=id); NoSlot stands for DoesNotExist
SlotById(w, id) ==
    IF \E s \in w.slots : s.id = id
    THEN CHOOSE s \in w.slots : s.id = id
    ELSE NoSlot

BookingById(w, id) ==
    IF \E b \in w.bookings : b.id = id
    THEN CHOOSE b \in w.bookings : b.id = id
    ELSE NoBooking

\* the reverse accessor slot.booking of the OneToOneField
BookingsOfSlot(w, slotId) == {b \in w.bookings : b.slot = slotId}

Truthy(t) == t # None

\* ----------------------------------------------------------- row locking
\* reads that take no row lock
NeverLocked(w, p, rows) == FALSE

\* ----------------------------------------------------------- row locking
LockedByOther(w, p, rows) ==
    \E q \in Procs \ {p} :
        \/ w.locks[q].slot \cap rows.slot # {}
        \/ w.locks[q].user \cap rows.user # {}
        \/ w.locks[q].booking \cap rows.booking # {}

Acquire(w, p, rows) ==
    [w EXCEPT !.locks[p] =
        [slot |-> @.slot \cup rows.slot,
         user |-> @.user \cup rows.user,
         booking |-> @.booking \cup rows.booking]]

Rows(slotIds, userIds, bookingIds) ==
    [slot |-> slotIds, user |-> userIds, booking |-> bookingIds]

\* the request ends: locks released, locals dropped, call and result kept
Finish(w, p, result) ==
    [w EXCEPT !.locks[p] = NoLocks,
              !.txn[p] = [Idle EXCEPT !.op = w.txn[p].op,
                                      !.slot = w.txn[p].slot,
                                      !.student = w.txn[p].student,
                                      !.group_id = w.txn[p].group_id,
                                      !.booking = w.txn[p].booking,
                                      !.force = w.txn[p].force,
                                      !.reason = w.txn[p].reason,
                                      !.faculty = w.txn[p].faculty,
                                      !.subject = w.txn[p].subject,
                                      !.start_time = w.txn[p].start_time,
                                      !.end_time = w.txn[p].end_time,
                                      !.partial = w.txn[p].partial,
                                      !.profile_group_id =
                                          w.txn[p].profile_group_id,
                                      !.mentor_emails = w.txn[p].mentor_emails,
                                      !.result = result]]

\* the foreign key Booking.slot, checked when the transaction commits
Dangling(w) == \E b \in w.bookings : \A s \in w.slots : s.id # b.slot

\* transaction.atomic: the block ends normally, buffered writes are applied
Commit(w, p) ==
    LET t == w.txn[p]
        afterDelete ==
            [w EXCEPT !.slots = {s \in @ : s.id \notin t.w_delete},
                      !.bookings = {b \in @ : b.id \notin t.w_unbook}]
        afterBooking ==
            IF t.w_booking = NoBooking THEN afterDelete
            ELSE [afterDelete EXCEPT !.bookings =
                    {b \in @ : b.id # t.w_booking.id} \cup {t.w_booking}]
        afterSlot ==
            IF t.w_slot = NoSlot THEN afterBooking
            ELSE [afterBooking EXCEPT !.slots =
                    {s \in @ : s.id # t.w_slot.id} \cup {t.w_slot}]
    IN IF Dangling(afterSlot) THEN Finish(w, p, "IntegrityError")
       ELSE Finish(afterSlot, p, "ok")

\* statements that are written through as they run, outside any transaction
WrittenThrough(w, p, error) ==
    [Commit(w, p) EXCEPT !.txn[p].result = error]

\* transaction.atomic: an exception leaves the block, nothing is written
Rollback(w, p, error) == Finish(w, p, error)

Goto(w, p, pc) == [w EXCEPT !.txn[p].pc = pc]

\* -------------------------------------------------------------- Slot.clean
\* slots/models.py Slot.clean, run by Slot.save through full_clean
SlotCleanFails(slot, t) ==
    /\ Truthy(slot.start_time) /\ Truthy(slot.end_time)
    /\ \/ slot.start_time >= slot.end_time
       \/ slot.start_time < t

\* ------------------------------------------------- Booking.create_booking
SlotOf(w, b) == SlotById(w, b.slot)

\* a create that never looks at the team
TeamQuerySkipped(w, group_id, subject) == {}

\* cls.objects.filter(group_id=..., slot__subject=..., status__in=[CONFIRMED,
\* ABSENT]).filter(status=CONFIRMED)
TeamConfirmed(w, group_id, subject) ==
    {b \in w.bookings :
        /\ b.group_id = group_id
        /\ SlotOf(w, b).subject = subject
        /\ b.status \in {CONFIRMED, ABSENT}
        /\ b.status = CONFIRMED}

\* a query that counts the absences with every faculty
AbsentWithAnyFaculty(w, student, subject, teacher_external_id) ==
    {b \in w.bookings :
        /\ b.student = student
        /\ b.status = ABSENT
        /\ SlotOf(w, b).subject = subject}

\* a lock that an absence of any student imposes
AbsentOfAnyStudent(w, student, subject, teacher_external_id) ==
    {b \in w.bookings :
        /\ b.status = ABSENT
        /\ SlotOf(w, b).subject = subject
        /\ pbl_user_id(SlotOf(w, b).faculty) = teacher_external_id}

\* cls.objects.filter(student=..., status=ABSENT, slot__subject=...,
\* slot__faculty__pbl_user_id=...)
AbsentBookings(w, student, subject, teacher_external_id) ==
    {b \in w.bookings :
        /\ b.student = student
        /\ b.status = ABSENT
        /\ SlotOf(w, b).subject = subject
        /\ pbl_user_id(SlotOf(w, b).faculty) = teacher_external_id}

\* order_by('-absent_at', '-updated_at'); PostgreSQL sorts NULL first in DESC
SortsBefore(a, b) ==
    \/ a.absent_at = None /\ b.absent_at # None
    \/ a.absent_at # None /\ b.absent_at # None /\ a.absent_at > b.absent_at
    \/ a.absent_at = b.absent_at /\ a.updated_at > b.updated_at

\* .first() of the ordered query; rows that tie carry the same two timestamps
LatestAbsent(rows) ==
    IF rows = {} THEN NoBooking
    ELSE CHOOSE b \in rows : \A c \in rows : ~SortsBefore(c, b)

\* absent_time = latest_absent.absent_at or latest_absent.updated_at
AbsentTime(b) == IF Truthy(b.absent_at) THEN b.absent_at ELSE b.updated_at

\* RebookingPermission.objects.filter(student, subject, teacher_external_id)
\* .first()
PermissionFor(w, student, subject, teacher_external_id) ==
    LET rows == {r \in w.perms :
                    /\ r.student = student
                    /\ r.subject = subject
                    /\ r.teacher_external_id = teacher_external_id}
    IN IF rows = {} THEN NoPerm ELSE CHOOSE r \in rows : TRUE

\* a check that accepts any permission row, however old
BlocksWithoutPermission(permission, absent_time) == permission = NoPerm

\* permission is None or (absent_time and permission.updated_at < absent_time)
AbsenceBlocks(permission, absent_time) ==
    \/ permission = NoPerm
    \/ Truthy(absent_time) /\ permission.updated_at < absent_time

\* rows the FOR UPDATE of the latest-absent query locks: the booking and the
\* slot and faculty rows joined to it
AbsentRows(w, b) ==
    IF b = NoBooking THEN Rows({}, {}, {})
    ELSE Rows({b.slot}, {SlotOf(w, b).faculty}, {b.id})

\* rows the FOR UPDATE of the team query (LIMIT 1 by exists()) locks
TeamRows(w, matches) ==
    IF matches = {} THEN Rows({}, {}, {})
    ELSE LET b == CHOOSE m \in matches : TRUE
         IN Rows({b.slot}, {}, {b.id})

\* slot.is_available = False; slot.save(update_fields=['is_available', ...])
BookedSlot(slot) == [slot EXCEPT !.is_available = FALSE]

\* the row locks the next statement of create_booking needs
create_booking_rows(w, p) ==
    LET t == w.txn[p]
        subject == normalize_subject(t.l_slot.subject)
    IN CASE t.pc = "c_lock_slot" ->
              Rows({s.id : s \in {x \in w.slots : x.id = t.slot}}, {}, {})
         [] t.pc = "c_lock_student" -> Rows({}, {t.student}, {})
         [] t.pc = "c_team" ->
              TeamRows(w, TeamConfirmed(w, t.group_id, subject))
         [] t.pc = "c_absent" ->
              AbsentRows(w, LatestAbsent(AbsentBookings(
                  w, t.student, subject, pbl_user_id(t.l_slot.faculty))))
         [] t.pc = "c_write" ->
              IF t.l_existing # NoBooking /\ t.l_existing.status = CANCELLED
              THEN Rows({}, {}, {t.l_existing.id} \cap {b.id : b \in w.bookings})
              ELSE Rows({}, {}, {})
         [] OTHER -> Rows({}, {}, {})

\* existing_booking = slot.booking (None on DoesNotExist)
ExistingBooking(w, slotId) ==
    IF BookingsOfSlot(w, slotId) = {} THEN NoBooking
    ELSE CHOOSE b \in BookingsOfSlot(w, slotId) : TRUE

\* a create that takes any team id
GroupNeverMissing(group_id) == FALSE

\* if not group_id (None and the empty string alike)
GroupMissing(group_id) == group_id = ""

\* a reuse that leaves the cancellation on the row
ReusedRowStillCancelled(row, student, group_id, t) ==
    [row EXCEPT !.student = student, !.group_id = group_id,
                !.status = CONFIRMED, !.updated_at = t]

\* existing_booking.save(update_fields=[student, group_id, status,
\* cancelled_at, cancellation_reason, updated_at])
ReusedRow(row, student, group_id, t) ==
    [row EXCEPT !.student = student, !.group_id = group_id,
                !.status = CONFIRMED, !.cancelled_at = None,
                !.cancellation_reason = "", !.updated_at = t]

\* id = uuid.uuid4(): an id no row carries; the slot's number when it is free
NewId(w, slotId) ==
    IF BookingById(w, slotId) = NoBooking THEN slotId
    ELSE CHOOSE n \in 1..(Cardinality(w.bookings) + 1) :
            BookingById(w, n) = NoBooking

\* cls.objects.create(slot, student, group_id, status=CONFIRMED)
NewBooking(id, slotId, student, group_id, t) ==
    [NoBooking EXCEPT !.id = id, !.slot = slotId, !.student = student,
                      !.group_id = group_id, !.status = CONFIRMED,
                      !.updated_at = t]

\* a table without the unique index
NoUniqueIndex(w, slotId) == FALSE

\* the unique index of the OneToOneField Booking.slot
SlotAlreadyReferenced(w, slotId) == BookingsOfSlot(w, slotId) # {}

\* if existing_booking and existing_booking.status == CANCELLED
ReusesCancelledRow(existing) ==
    existing # NoBooking /\ existing.status = CANCELLED

\* one statement of create_booking, taken when its row locks are free
create_booking(w, p) ==
    LET t == w.txn[p]
        slot == t.l_slot
        subject == normalize_subject(slot.subject)
        teacher_external_id == pbl_user_id(slot.faculty)
        locked == Acquire(w, p, create_booking_rows(w, p))
    IN CASE t.pc = "c_lock_slot" ->
              IF SlotById(w, t.slot) = NoSlot
              THEN Rollback(w, p, "DoesNotExist")
              ELSE [locked EXCEPT !.txn[p].l_slot = SlotById(w, t.slot),
                                  !.txn[p].pc = "c_lock_student"]
         [] t.pc = "c_lock_student" ->
              IF ~slot.is_available
              THEN Rollback(w, p, "SlotUnavailable")
              ELSE Goto(locked, p, "c_read_booking")
         [] t.pc = "c_read_booking" ->
              LET existing == ExistingBooking(w, slot.id)
              IN IF existing # NoBooking /\ existing.status = CONFIRMED
                 THEN Rollback(w, p, "AlreadyBooked")
                 ELSE IF GroupMissing(t.group_id)
                 THEN Rollback(w, p, "GroupRequired")
                 ELSE [w EXCEPT !.txn[p].l_existing = existing,
                                !.txn[p].pc = "c_team"]
         [] t.pc = "c_team" ->
              IF TeamConfirmed(w, t.group_id, subject) # {}
              THEN Rollback(w, p, "TeamConflict")
              ELSE Goto(w, p, "c_absent")
         [] t.pc = "c_absent" ->
              LET latest_absent == LatestAbsent(AbsentBookings(
                      w, t.student, subject, teacher_external_id))
              IN IF latest_absent = NoBooking
                 THEN Goto(w, p, "c_write")
                 ELSE [locked EXCEPT
                         !.txn[p].l_absent = AbsentTime(latest_absent),
                         !.txn[p].pc = "c_perm"]
         [] t.pc = "c_perm" ->
              IF AbsenceBlocks(PermissionFor(w, t.student, subject,
                                             teacher_external_id), t.l_absent)
              THEN Rollback(w, p, "AbsenceLocked")
              ELSE Goto(w, p, "c_write")
         [] t.pc = "c_write" ->
              IF ReusesCancelledRow(t.l_existing)
              THEN IF BookingById(w, t.l_existing.id) = NoBooking
                   THEN Rollback(w, p, "DatabaseError")
                   ELSE [locked EXCEPT
                           !.txn[p].w_booking =
                               ReusedRow(BookingById(w, t.l_existing.id),
                                         t.student, t.group_id, w.now),
                           !.txn[p].pc = "c_save_slot"]
              ELSE IF SlotAlreadyReferenced(w, slot.id)
                   THEN Rollback(w, p, "IntegrityError")
                   ELSE [w EXCEPT
                           !.txn[p].w_booking =
                               NewBooking(NewId(w, slot.id), slot.id, t.student,
                                          t.group_id, w.now),
                           !.txn[p].pc = "c_save_slot"]
         [] t.pc = "c_save_slot" ->
              IF SlotCleanFails(slot, w.now)
              THEN Rollback(w, p, "SlotValidationError")
              ELSE Commit([w EXCEPT !.txn[p].w_slot = BookedSlot(slot)], p)
         [] OTHER -> w

\* ------------------------------------------- StudentBookingViewSet.create
\* a request layer that lets a student book with any faculty
AnyFaculty(slot, mentor_emails) == TRUE

\* slot.faculty.email in mentor_emails
IsMentor(slot, mentor_emails) == email(slot.faculty) \in mentor_emails

\* BookingCreateSerializer: validate_slot_id, the group_id field (DRF trims
\* it), validate against the profile the resolver returned, then
\* create -> Booking.create_booking(slot, student, derived group id)
student_create(w, p) ==
    LET t == w.txn[p]
        slot == SlotById(w, t.slot)
        subject == normalize_subject(slot.subject)
        group_id == strip(t.group_id)
        derived_group_id == strip(t.profile_group_id)
    IN CASE t.pc = "s_slot" ->
              IF slot = NoSlot THEN Rollback(w, p, "SlotNotFound")
              ELSE IF ~slot.is_available
              THEN Rollback(w, p, "SlotUnavailable")
              ELSE IF slot.start_time <= w.now
              THEN Rollback(w, p, "SlotInPast")
              ELSE IF \E b \in BookingsOfSlot(w, slot.id) :
                         b.status = CONFIRMED
              THEN Rollback(w, p, "AlreadyBooked")
              ELSE IF group_id = "" THEN Rollback(w, p, "GroupRequired")
              ELSE Goto(w, p, "s_team")
         [] t.pc = "s_team" ->
              IF slot = NoSlot THEN Rollback(w, p, "DoesNotExist")
              ELSE IF TeamConfirmed(w, group_id, subject) # {}
              THEN Rollback(w, p, "TeamConflict")
              ELSE Goto(w, p, "s_absent")
         [] t.pc = "s_absent" ->
              LET latest_absent == LatestAbsent(AbsentBookings(
                      w, t.student, subject, pbl_user_id(slot.faculty)))
              IN IF latest_absent # NoBooking
                    /\ AbsenceBlocks(
                          PermissionFor(w, t.student, subject,
                                        pbl_user_id(slot.faculty)),
                          AbsentTime(latest_absent))
                 THEN Rollback(w, p, "AbsenceLocked")
                 ELSE Goto(w, p, "s_profile")
         [] t.pc = "s_profile" ->
              IF derived_group_id = "" THEN Rollback(w, p, "NoTeam")
              ELSE IF group_id # derived_group_id
              THEN Rollback(w, p, "InvalidGroup")
              ELSE IF t.mentor_emails = {} THEN Rollback(w, p, "NoMentors")
              ELSE IF ~IsMentor(slot, t.mentor_emails)
              THEN Rollback(w, p, "NotAuthorized")
              ELSE [w EXCEPT !.txn[p].group_id = derived_group_id,
                             !.txn[p].pc = "s_create"]
         [] t.pc = "s_create" ->
              IF slot = NoSlot THEN Rollback(w, p, "DoesNotExist")
              ELSE Goto(w, p, "c_lock_slot")
         [] OTHER -> create_booking(w, p)

\* ------------------------------------------------------------ Booking.cancel
\* a window whose last hour is still open
can_cancel_at_deadline(booking, slot, t) ==
    /\ booking.status = CONFIRMED
    /\ t <= slot.start_time - STUDENT_CANCELLATION_WINDOW_HOURS

\* the property Booking.can_cancel, evaluated at time t
can_cancel(booking, slot, t) ==
    /\ booking.status = CONFIRMED
    /\ t < slot.start_time - STUDENT_CANCELLATION_WINDOW_HOURS

\* self.status, self.cancelled_at, self.cancellation_reason set; self.save()
\* writes every column of the loaded object
CancelledRow(obj, reason, t) ==
    [obj EXCEPT !.status = CANCELLED, !.cancelled_at = t,
                !.cancellation_reason = reason, !.updated_at = t]

\* a cancel that forgets the slot
SlotKept(slot) == slot

\* self.slot.is_available = True; self.slot.save(update_fields=[...])
FreedSlot(slot) == [slot EXCEPT !.is_available = TRUE]

\* not force and not self.can_cancel
WindowViolation(booking, slot, force, t) ==
    ~force /\ ~can_cancel(booking, slot, t)

\* a cancel that never looks at the status
AlwaysCancellable(obj) == TRUE

\* a cancel that refuses only what is cancelled already
CancellableUnlessCancelled(obj) == obj.status # CANCELLED

\* if self.status != self.Status.CONFIRMED: raise
Cancellable(obj) == obj.status = CONFIRMED

cancel_rows(w, p) ==
    LET t == w.txn[p]
    IN CASE t.pc = "k_save_booking" ->
              Rows({}, {}, {t.booking} \cap {b.id : b \in w.bookings})
         [] t.pc = "k_save_slot" ->
              Rows({t.l_slot.id} \cap {s.id : s \in w.slots}, {}, {})
         [] OTHER -> Rows({}, {}, {})

\* the booking is loaded (get_object / objects.get with select_related
\* 'slot'), then Booking.cancel runs on the loaded object
cancel(w, p) ==
    LET t == w.txn[p]
        locked == Acquire(w, p, cancel_rows(w, p))
    IN CASE t.pc = "k_load" ->
              LET obj == BookingById(w, t.booking)
                  slot == SlotOf(w, obj)
              IN IF obj = NoBooking THEN Rollback(w, p, "NotFound")
                 ELSE IF ~Cancellable(obj)
                 THEN Rollback(w, p, "InvalidState")
                 ELSE IF WindowViolation(obj, slot, t.force, w.now)
                 THEN Rollback(w, p, "CancellationWindowViolation")
                 ELSE [w EXCEPT !.txn[p].l_obj = obj,
                                !.txn[p].l_slot = slot,
                                !.txn[p].pc = "k_save_booking"]
         [] t.pc = "k_save_booking" ->
              \* an UPDATE that matches no row falls back to an INSERT
              IF BookingById(w, t.booking) = NoBooking
                 /\ (SlotById(w, t.l_obj.slot) = NoSlot
                     \/ SlotAlreadyReferenced(w, t.l_obj.slot))
              THEN Rollback(w, p, "IntegrityError")
              ELSE [locked EXCEPT
                      !.txn[p].w_booking = CancelledRow(t.l_obj, t.reason, w.now),
                      !.txn[p].pc = "k_save_slot"]
         [] t.pc = "k_save_slot" ->
              IF SlotCleanFails([t.l_slot EXCEPT !.is_available = TRUE], w.now)
              THEN Rollback(w, p, "SlotValidationError")
              ELSE IF SlotById(w, t.l_slot.id) = NoSlot
              THEN Rollback(w, p, "DatabaseError")
              ELSE Commit([locked EXCEPT !.txn[p].w_slot =
                                FreedSlot(SlotById(w, t.l_slot.id))], p)
         [] OTHER -> w

\* ------------------------------------------- StudentBookingViewSet.cancel
\* get_object() looks the booking up among those of the caller,
\* BookingCancelSerializer.validate checks status and window on the loaded
\* object, then Booking.cancel(reason) runs on it
student_cancel(w, p) ==
    LET t == w.txn[p]
        row == BookingById(w, t.booking)
    IN IF t.pc = "sc_load"
       THEN IF row = NoBooking \/ row.student # t.student
            THEN Rollback(w, p, "NotFound")
            ELSE IF row.status # CONFIRMED
            THEN Rollback(w, p, "InvalidState")
            ELSE IF ~can_cancel(row, SlotOf(w, row), w.now)
            THEN Rollback(w, p, "CancellationWindowViolation")
            ELSE [w EXCEPT !.txn[p].l_obj = row,
                           !.txn[p].l_slot = SlotOf(w, row),
                           !.txn[p].pc = "sc_cancel"]
       ELSE IF t.pc = "sc_cancel"
       THEN IF ~Cancellable(t.l_obj) THEN Rollback(w, p, "InvalidState")
            ELSE IF WindowViolation(t.l_obj, t.l_slot, FALSE, w.now)
            THEN Rollback(w, p, "CancellationWindowViolation")
            ELSE Goto(w, p, "k_save_booking")
       ELSE cancel(w, p)

\* ------------------------------------------ FacultyCancelBookingView.patch
\* the view answers for a Cancelled booking itself and hands a Confirmed one
\* to Booking.cancel(reason, force=True)
faculty_cancel(w, p) ==
    LET t == w.txn[p]
        row == BookingById(w, t.booking)
    IN IF t.pc = "f_load"
       THEN IF row = NoBooking THEN Rollback(w, p, "NotFound")
            ELSE IF SlotOf(w, row).faculty # t.faculty
            THEN Rollback(w, p, "NotAllowed")
            ELSE IF row.status = CANCELLED THEN Commit(w, p)
            ELSE IF row.status # CONFIRMED
            THEN Rollback(w, p, "InvalidState")
            ELSE [w EXCEPT !.txn[p].l_obj = row,
                           !.txn[p].l_slot = SlotOf(w, row),
                           !.txn[p].pc = "k_load_done"]
       ELSE IF t.pc = "k_load_done"
       THEN IF ~Cancellable(t.l_obj) THEN Rollback(w, p, "InvalidState")
            ELSE IF WindowViolation(t.l_obj, t.l_slot, TRUE, w.now)
            THEN Rollback(w, p, "CancellationWindowViolation")
            ELSE Goto(w, p, "k_save_booking")
       ELSE cancel(w, p)

\* --------------------------------------------- FacultyMarkAbsentView.patch
\* a save that stamps cancelled_at as well
AbsentAndStamped(row, t) ==
    [row EXCEPT !.status = ABSENT, !.absent_at = t, !.updated_at = t,
                !.cancelled_at = t]

\* booking.save(update_fields=['status', 'absent_at', 'updated_at'])
AbsentRow(row, t) ==
    [row EXCEPT !.status = ABSENT, !.absent_at = t, !.updated_at = t]

\* booking.absent_at = booking.updated_at or timezone.now()
BackfilledRow(row, obj, t) ==
    [row EXCEPT !.absent_at = IF Truthy(obj.updated_at) THEN obj.updated_at
                              ELSE t,
                !.updated_at = t]

\* a view that stamps absent_at on every repeated call
AlwaysBackfill(row) == TRUE

\* if booking.absent_at is None
NeedsBackfill(row) == row.absent_at = None

booking_rows(w, p) ==
    LET t == w.txn[p]
    IN IF t.pc \in {"a_save", "a_backfill", "m_save", "v_save"}
       THEN Rows({}, {}, {t.booking} \cap {b.id : b \in w.bookings})
       ELSE Rows({}, {}, {})

mark_absent(w, p) ==
    LET t == w.txn[p]
        locked == Acquire(w, p, booking_rows(w, p))
        row == BookingById(w, t.booking)
    IN CASE t.pc = "a_load" ->
              IF row = NoBooking THEN Rollback(w, p, "NotFound")
              ELSE IF SlotOf(w, row).faculty # t.faculty
              THEN Rollback(w, p, "NotAllowed")
              ELSE IF row.status = ABSENT
              THEN IF NeedsBackfill(row)
                   THEN [w EXCEPT !.txn[p].l_obj = row,
                                  !.txn[p].pc = "a_backfill"]
                   ELSE Commit(w, p)
              ELSE IF row.status # CONFIRMED
              THEN Rollback(w, p, "InvalidState")
              ELSE [w EXCEPT !.txn[p].l_obj = row, !.txn[p].pc = "a_save"]
         [] t.pc = "a_save" ->
              IF row = NoBooking THEN Rollback(w, p, "DatabaseError")
              ELSE Commit([locked EXCEPT !.txn[p].w_booking =
                                AbsentRow(row, w.now)], p)
         [] t.pc = "a_backfill" ->
              IF row = NoBooking THEN Rollback(w, p, "DatabaseError")
              ELSE Commit([locked EXCEPT !.txn[p].w_booking =
                                BackfilledRow(row, t.l_obj, w.now)], p)
         [] OTHER -> w

\* ------------------------------------------ FacultyMarkCompletedView.patch
\* booking.save(update_fields=['status', 'updated_at'])
CompletedRow(row, t) == [row EXCEPT !.status = COMPLETED, !.updated_at = t]

mark_completed(w, p) ==
    LET t == w.txn[p]
        locked == Acquire(w, p, booking_rows(w, p))
        row == BookingById(w, t.booking)
    IN CASE t.pc = "m_load" ->
              IF row = NoBooking THEN Rollback(w, p, "NotFound")
              ELSE IF SlotOf(w, row).faculty # t.faculty
              THEN Rollback(w, p, "NotAllowed")
              ELSE IF row.status = COMPLETED THEN Commit(w, p)
              ELSE IF row.status # CONFIRMED
              THEN Rollback(w, p, "InvalidState")
              ELSE [w EXCEPT !.txn[p].l_obj = row, !.txn[p].pc = "m_save"]
         [] t.pc = "m_save" ->
              IF row = NoBooking THEN Rollback(w, p, "DatabaseError")
              ELSE Commit([locked EXCEPT !.txn[p].w_booking =
                                CompletedRow(row, w.now)], p)
         [] OTHER -> w

\* --------------------------------------- FacultyBookingViewSet.complete
\* get_object() looks the booking up among those on the faculty's slots
complete(w, p) ==
    LET t == w.txn[p]
        locked == Acquire(w, p, booking_rows(w, p))
        row == BookingById(w, t.booking)
    IN CASE t.pc = "v_load" ->
              IF row = NoBooking \/ SlotOf(w, row).faculty # t.faculty
              THEN Rollback(w, p, "NotFound")
              ELSE IF row.status # CONFIRMED
              THEN Rollback(w, p, "InvalidState")
              ELSE [w EXCEPT !.txn[p].l_obj = row, !.txn[p].pc = "v_save"]
         [] t.pc = "v_save" ->
              IF row = NoBooking THEN Rollback(w, p, "DatabaseError")
              ELSE Commit([locked EXCEPT !.txn[p].w_booking =
                                CompletedRow(row, w.now)], p)
         [] OTHER -> w

\* ------------------------------------------------- rebooking permissions
\* get_or_create: a row that exists is left as it is
get_or_create(rows, student, subject, teacher_external_id, t) ==
    IF \E r \in rows : r.student = student /\ r.subject = subject
    THEN rows
    ELSE rows \cup {[student |-> student, subject |-> subject,
                     teacher_external_id |-> teacher_external_id,
                     updated_at |-> t]}

\* a table without the unique constraint on (student, subject)
create_always(rows, student, subject, teacher_external_id, t) ==
    rows \cup {[student |-> student, subject |-> subject,
                teacher_external_id |-> teacher_external_id,
                updated_at |-> t]}

\* RebookingPermission.objects.update_or_create(student=, subject=,
\* defaults={'teacher_external_id': ...}); updated_at is auto_now
update_or_create(rows, student, subject, teacher_external_id, t) ==
    LET found == {r \in rows : r.student = student /\ r.subject = subject}
        row == [student |-> student, subject |-> subject,
                teacher_external_id |-> teacher_external_id, updated_at |-> t]
    IN (rows \ found) \cup {row}

PermissionCount(w, student, subject) ==
    Cardinality({r \in w.perms : r.student = student /\ r.subject = subject})

Upsert(w, p, student, subject, teacher_external_id) ==
    IF PermissionCount(w, student, subject) > 1
    THEN Rollback(w, p, "MultipleObjectsReturned")
    ELSE Commit([w EXCEPT !.perms =
            update_or_create(@, student, subject, teacher_external_id, w.now)], p)

\* FacultyAllowRebookingForBookingView.post
allow_rebooking_for_booking(w, p) ==
    LET t == w.txn[p]
        row == BookingById(w, t.booking)
    IN CASE t.pc = "g_load" ->
              IF row = NoBooking THEN Rollback(w, p, "NotFound")
              ELSE IF SlotOf(w, row).faculty # t.faculty
              THEN Rollback(w, p, "NotAllowed")
              ELSE IF row.status # ABSENT
              THEN Rollback(w, p, "InvalidState")
              ELSE IF pbl_user_id(t.faculty) = ""
              THEN Rollback(w, p, "NotConfigured")
              ELSE [w EXCEPT !.txn[p].l_obj = row,
                             !.txn[p].l_slot = SlotOf(w, row),
                             !.txn[p].pc = "g_upsert"]
         [] t.pc = "g_upsert" ->
              Upsert(w, p, t.l_obj.student,
                     normalize_subject(t.l_slot.subject), pbl_user_id(t.faculty))
         [] OTHER -> w

\* FacultyAllowRebookingView.post (student id and subject in the body)
allow_rebooking(w, p) ==
    LET t == w.txn[p]
        subject == normalize_subject(t.subject)
    IN CASE t.pc = "r_check" ->
              IF ~is_allowed_subject(subject)
              THEN Rollback(w, p, "InvalidSubject")
              ELSE IF pbl_user_id(t.faculty) = ""
              THEN Rollback(w, p, "NotConfigured")
              ELSE IF t.student \notin w.users \cap Students
              THEN Rollback(w, p, "NotFound")
              ELSE IF AbsentBookings(w, t.student, subject,
                                     pbl_user_id(t.faculty)) = {}
              THEN Rollback(w, p, "NotAbsent")
              ELSE Goto(w, p, "r_upsert")
         [] t.pc = "r_upsert" ->
              Upsert(w, p, t.student, subject, pbl_user_id(t.faculty))
         [] OTHER -> w

\* ------------------------------------------------------------- read views
RECURSIVE Ordered(_)
\* the rows of a query in the order of order_by('-absent_at', '-updated_at')
Ordered(rows) ==
    IF rows = {} THEN <<>>
    ELSE LET b == LatestAbsent(rows) IN <<b>> \o Ordered(rows \ {b})

\* permission is None or (absent_time and permission.updated_at <
\* absent_time), for the permission of (student, subject, teacher_external_id)
Unresolved(w, b, teacher_external_id) ==
    AbsenceBlocks(PermissionFor(w, b.student,
                                normalize_subject(SlotOf(w, b).subject),
                                teacher_external_id),
                  AbsentTime(b))

Entry(w, b) ==
    [student |-> b.student,
     subject |-> normalize_subject(SlotOf(w, b).subject),
     absent_at |-> AbsentTime(b),
     booking_id |-> b.id]

RECURSIVE BlockedBySubject(_, _, _)
\* the loop of StudentBookingViewSet.blocked_subjects over the absences
BlockedBySubject(w, absences, blocked_by_subject) ==
    IF absences = <<>> THEN blocked_by_subject
    ELSE LET b == Head(absences)
             teacher_external_id == pbl_user_id(SlotOf(w, b).faculty)
             unresolved ==
                 IF teacher_external_id = "" THEN TRUE
                 ELSE Unresolved(w, b, teacher_external_id)
         IN IF ~unresolved
               \/ \E e \in blocked_by_subject : e.subject = Entry(w, b).subject
            THEN BlockedBySubject(w, Tail(absences), blocked_by_subject)
            ELSE BlockedBySubject(w, Tail(absences),
                                  blocked_by_subject \cup {Entry(w, b)})

\* StudentBookingViewSet.blocked_subjects for request.user = student
blocked_subjects(w, student) ==
    BlockedBySubject(
        w,
        Ordered({b \in w.bookings : b.student = student /\ b.status = ABSENT}),
        {})

RECURSIVE LatestByKey(_, _, _)
\* the first loop of FacultyAbsentStudentsView.get: the first row of every
\* (student, subject)
LatestByKey(w, qs, latest) ==
    IF qs = <<>> THEN latest
    ELSE LET booking == Head(qs)
         IN IF \E l \in latest :
                  /\ l.student = booking.student
                  /\ Entry(w, l).subject = Entry(w, booking).subject
            THEN LatestByKey(w, Tail(qs), latest)
            ELSE LatestByKey(w, Tail(qs), latest \cup {booking})

\* FacultyAbsentStudentsView.get for request.user = faculty
absent_students(w, faculty) ==
    LET qs == Ordered({b \in w.bookings :
                         SlotOf(w, b).faculty = faculty /\ b.status = ABSENT})
    IN {Entry(w, booking) :
          booking \in {l \in LatestByKey(w, qs, {}) :
                          Unresolved(w, l, pbl_user_id(faculty))}}

\* ------------------------------------------------------ Slot.check_overlap
\* an overlap test that counts slots which touch at an endpoint
overlap_or_touch(w, faculty_id, start_time, end_time, exclude_id) ==
    LET queryset == {s \in w.slots :
                        /\ s.faculty = faculty_id
                        /\ s.start_time <= end_time
                        /\ s.end_time >= start_time}
    IN {s \in queryset : s.id # exclude_id} # {}

\* cls.objects.filter(faculty_id=, start_time__lt=end_time,
\* end_time__gt=start_time), .exclude(id=exclude_id) if exclude_id, .exists();
\* exclude_id 0 stands for None
check_overlap(w, faculty_id, start_time, end_time, exclude_id) ==
    LET queryset == {s \in w.slots :
                        /\ s.faculty = faculty_id
                        /\ s.start_time < end_time
                        /\ s.end_time > start_time}
    IN IF exclude_id # 0
       THEN {s \in queryset : s.id # exclude_id} # {}
       ELSE queryset # {}

\* ----------------------- FacultySlotViewSet.update and partial_update
\* serializer.save(): the fields sent replace those of the instance
UpdatedSlot(slot, start_time, end_time) ==
    [slot EXCEPT !.start_time = IF Truthy(start_time) THEN start_time ELSE @,
                 !.end_time = IF Truthy(end_time) THEN end_time ELSE @]

update_rows(w, p) ==
    LET t == w.txn[p]
    IN IF t.pc = "u_save"
       THEN Rows({t.slot} \cap {s.id : s \in w.slots}, {}, {})
       ELSE Rows({}, {}, {})

\* get_object(), SlotCreateSerializer.is_valid() and serializer.save(); a
\* field that the request leaves out is None
update(w, p) ==
    LET t == w.txn[p]
        instance == t.l_slot
        locked == Acquire(w, p, update_rows(w, p))
    IN CASE t.pc = "u_load" ->
              IF SlotById(w, t.slot) = NoSlot
                 \/ SlotById(w, t.slot).faculty # t.faculty
              THEN Rollback(w, p, "NotFound")
              ELSE [w EXCEPT !.txn[p].l_slot = SlotById(w, t.slot),
                             !.txn[p].pc = "u_validate"]
         [] t.pc = "u_validate" ->
              IF ~t.partial /\ ~(Truthy(t.start_time) /\ Truthy(t.end_time))
              THEN Rollback(w, p, "FieldRequired")
              ELSE IF Truthy(t.start_time) /\ t.start_time <= w.now
              THEN Rollback(w, p, "StartNotInFuture")
              ELSE IF Truthy(t.start_time) /\ Truthy(t.end_time)
                      /\ t.start_time >= t.end_time
              THEN Rollback(w, p, "EndBeforeStart")
              ELSE IF Truthy(t.start_time) /\ Truthy(t.end_time)
                      /\ check_overlap(w, t.faculty, t.start_time, t.end_time,
                                       instance.id)
              THEN Rollback(w, p, "Overlap")
              ELSE Goto(w, p, "u_save")
         [] t.pc = "u_save" ->
              IF SlotCleanFails(UpdatedSlot(instance, t.start_time, t.end_time),
                                w.now)
              THEN Rollback(w, p, "SlotValidationError")
              ELSE Commit([locked EXCEPT !.txn[p].w_slot =
                      UpdatedSlot(instance, t.start_time, t.end_time)], p)
         [] OTHER -> w

\* ------------------------------------------------ FacultySlotViewSet.destroy
HasHistory(w, slotId) ==
    \E b \in BookingsOfSlot(w, slotId) :
        b.status \in {CONFIRMED, COMPLETED, ABSENT}

destroy_rows(w, p) ==
    LET t == w.txn[p]
    IN CASE t.pc = "d_unbook" ->
              Rows({}, {}, {b.id : b \in BookingsOfSlot(w, t.slot)})
         [] t.pc = "d_delete" ->
              Rows({t.slot} \cap {s.id : s \in w.slots}, {}, {})
         [] OTHER -> Rows({}, {}, {})

\* slot.delete(): the bookings of the slot are deleted first (on_delete
\* CASCADE, DELETE ... WHERE slot_id IN), then the slot row
destroy(w, p) ==
    LET t == w.txn[p]
        slot == SlotById(w, t.slot)
        locked == Acquire(w, p, destroy_rows(w, p))
    IN CASE t.pc = "d_load" ->
              IF slot = NoSlot \/ slot.faculty # t.faculty
              THEN Rollback(w, p, "NotFound")
              ELSE IF HasHistory(w, t.slot)
              THEN Rollback(w, p, "HasHistory")
              ELSE Goto(w, p, "d_unbook")
         [] t.pc = "d_unbook" ->
              [locked EXCEPT
                 !.txn[p].w_unbook = {b.id : b \in BookingsOfSlot(w, t.slot)},
                 !.txn[p].pc = "d_delete"]
         [] t.pc = "d_delete" ->
              Commit([locked EXCEPT !.txn[p].w_delete = {t.slot}], p)
         [] OTHER -> w

\* ------------------------------- FacultySlotViewSet.delete_todays_slots
HOURS_PER_DAY == 24

\* start_of_day <= start_time < end_of_day for today = timezone.localdate()
IsToday(slot, t) == slot.start_time \div HOURS_PER_DAY = t \div HOURS_PER_DAY

\* qs = Slot.objects.filter(faculty=faculty, start_time__gte=..., __lt=...)
TodaysSlots(w, faculty) ==
    {s \in w.slots : s.faculty = faculty /\ IsToday(s, w.now)}

\* qs.filter(booking__status=CONFIRMED).count()
confirmed_count(w, faculty) ==
    Cardinality({s \in TodaysSlots(w, faculty) :
                    \E b \in BookingsOfSlot(w, s.id) : b.status = CONFIRMED})

\* a deletion that spares only the slots with a Confirmed booking
DeletableUnlessConfirmed(w, faculty) ==
    {s \in TodaysSlots(w, faculty) :
        ~\E b \in BookingsOfSlot(w, s.id) : b.status = CONFIRMED}

\* qs.exclude(booking__status__in=[CONFIRMED, COMPLETED, ABSENT])
Deletable(w, faculty) ==
    {s \in TodaysSlots(w, faculty) : ~HasHistory(w, s.id)}

delete_todays_rows(w, p) ==
    LET t == w.txn[p]
    IN CASE t.pc = "t_unbook" ->
              Rows({}, {}, {b.id : b \in {x \in w.bookings :
                                            x.slot \in t.w_delete}})
         [] t.pc = "t_delete" ->
              Rows(t.w_delete \cap {s.id : s \in w.slots}, {}, {})
         [] OTHER -> Rows({}, {}, {})

\* deletable_qs.delete(): the slots are selected, their bookings deleted
\* (on_delete CASCADE), then the slot rows
delete_todays_slots(w, p) ==
    LET t == w.txn[p]
        locked == Acquire(w, p, delete_todays_rows(w, p))
    IN CASE t.pc = "t_count" ->
              IF confirmed_count(w, t.faculty) # 0
              THEN Rollback(w, p, "ConfirmedExist")
              ELSE Goto(w, p, "t_select")
         [] t.pc = "t_select" ->
              [w EXCEPT
                 !.txn[p].w_delete = {s.id : s \in Deletable(w, t.faculty)},
                 !.txn[p].pc = "t_unbook"]
         [] t.pc = "t_unbook" ->
              [locked EXCEPT
                 !.txn[p].w_unbook =
                     {b.id : b \in {x \in w.bookings : x.slot \in t.w_delete}},
                 !.txn[p].pc = "t_delete"]
         [] t.pc = "t_delete" -> Commit(locked, p)
         [] OTHER -> w

\* -------------------------------------------------------------- requests
Handler(w, p) ==
    LET op == w.txn[p].op
    IN CASE op = "create" -> create_booking(w, p)
         [] op = "cancel" -> cancel(w, p)
         [] op = "faculty_cancel" -> faculty_cancel(w, p)
         [] op = "mark_absent" -> mark_absent(w, p)
         [] op = "mark_completed" -> mark_completed(w, p)
         [] op = "allow_booking" -> allow_rebooking_for_booking(w, p)
         [] op = "allow" -> allow_rebooking(w, p)
         [] op = "destroy" -> destroy(w, p)
         [] op = "complete" -> complete(w, p)
         [] op = "delete_todays" -> delete_todays_slots(w, p)
         [] op = "update" -> update(w, p)
         [] op = "student_create" -> student_create(w, p)
         [] op = "student_cancel" -> student_cancel(w, p)
         [] OTHER -> w

NextRows(w, p) ==
    LET op == w.txn[p].op
    IN CASE op \in {"create", "student_create"} -> create_booking_rows(w, p)
         [] op \in {"cancel", "faculty_cancel", "student_cancel"} ->
              cancel_rows(w, p)
         [] op \in {"mark_absent", "mark_completed", "complete"} ->
              booking_rows(w, p)
         [] op = "destroy" -> destroy_rows(w, p)
         [] op = "delete_todays" -> delete_todays_rows(w, p)
         [] op = "update" -> update_rows(w, p)
         [] OTHER -> Rows({}, {}, {})

\* a lock wait: the statement runs once the holder has committed or aborted
Waits(w, p) == LockedByOther(w, p, NextRows(w, p))

Begin(w, p, call) == [w EXCEPT !.txn[p] = call]

RECURSIVE Run(_, _)
\* the whole request, statement after statement, with no other request active
Run(w, p) == IF w.txn[p].pc = "idle" THEN w ELSE Run(Handler(w, p), p)

CreateCall(slotId, student, group_id) ==
    [Idle EXCEPT !.pc = "c_lock_slot", !.op = "create", !.slot = slotId,
                 !.student = student, !.group_id = group_id]

CancelCall(bookingId, reason, force) ==
    [Idle EXCEPT !.pc = "k_load", !.op = "cancel", !.booking = bookingId,
                 !.reason = reason, !.force = force]

FacultyCancelCall(faculty, bookingId, reason) ==
    [Idle EXCEPT !.pc = "f_load", !.op = "faculty_cancel",
                 !.booking = bookingId, !.faculty = faculty,
                 !.reason = reason, !.force = TRUE]

StudentCancelCall(student, bookingId, reason) ==
    [Idle EXCEPT !.pc = "sc_load", !.op = "student_cancel",
                 !.booking = bookingId, !.student = student,
                 !.reason = reason]

MarkAbsentCall(faculty, bookingId) ==
    [Idle EXCEPT !.pc = "a_load", !.op = "mark_absent", !.booking = bookingId,
                 !.faculty = faculty]

MarkCompletedCall(faculty, bookingId) ==
    [Idle EXCEPT !.pc = "m_load", !.op = "mark_completed",
                 !.booking = bookingId, !.faculty = faculty]

AllowForBookingCall(faculty, bookingId) ==
    [Idle EXCEPT !.pc = "g_load", !.op = "allow_booking",
                 !.booking = bookingId, !.faculty = faculty]

AllowCall(faculty, student, subject) ==
    [Idle EXCEPT !.pc = "r_check", !.op = "allow", !.faculty = faculty,
                 !.student = student, !.subject = subject]

CompleteCall(faculty, bookingId) ==
    [Idle EXCEPT !.pc = "v_load", !.op = "complete", !.booking = bookingId,
                 !.faculty = faculty]

DestroyCall(faculty, slotId) ==
    [Idle EXCEPT !.pc = "d_load", !.op = "destroy", !.slot = slotId,
                 !.faculty = faculty]

DeleteTodaysCall(faculty) ==
    [Idle EXCEPT !.pc = "t_count", !.op = "delete_todays", !.faculty = faculty]

\* POST of a student with slot_id and group_id; the profile is what the
\* resolver returns for the student
StudentCreateCall(student, slotId, group_id, profile_group_id, mentors) ==
    [Idle EXCEPT !.pc = "s_slot", !.op = "student_create", !.slot = slotId,
                 !.student = student, !.group_id = group_id,
                 !.profile_group_id = profile_group_id,
                 !.mentor_emails = mentors]

\* PUT (partial = FALSE) or PATCH (partial = TRUE) of a slot
UpdateCall(faculty, slotId, start_time, end_time, partial) ==
    [Idle EXCEPT !.pc = "u_load", !.op = "update", !.faculty = faculty,
                 !.slot = slotId, !.start_time = start_time,
                 !.end_time = end_time, !.partial = partial]

SlotIds == {s.id : s \in slots}
BookingIds == {b.id : b \in bookings}

\* ------------------------------------------------- one request at a time
\* what stays of a request that was served alone: its kind and its outcome
Served(w, p) ==
    [w EXCEPT !.txn[p] = [Idle EXCEPT !.op = w.txn[p].op,
                                      !.result = w.txn[p].result]]

Outcome(call) == Run(Begin(World, "p1", call), "p1")

Serial(call) == Apply(Served(Outcome(call), "p1"))

CreateBooking(slotId, student, group_id) ==
    Serial(CreateCall(slotId, student, group_id))

Cancel(bookingId, reason, force) == Serial(CancelCall(bookingId, reason, force))

MarkAbsent(faculty, bookingId) == Serial(MarkAbsentCall(faculty, bookingId))

MarkCompleted(faculty, bookingId) ==
    Serial(MarkCompletedCall(faculty, bookingId))

AllowRebookingForBooking(faculty, bookingId) ==
    Serial(AllowForBookingCall(faculty, bookingId))

AllowRebooking(faculty, student, subject) ==
    Serial(AllowCall(faculty, student, subject))

DestroySlot(faculty, slotId) == Serial(DestroyCall(faculty, slotId))

Complete(faculty, bookingId) == Serial(CompleteCall(faculty, bookingId))

DeleteTodaysSlots(faculty) == Serial(DeleteTodaysCall(faculty))

UpdateSlot(faculty, slotId, start_time, end_time, partial) ==
    Serial(UpdateCall(faculty, slotId, start_time, end_time, partial))

StudentCreate(student, slotId, group_id, profile_group_id, mentor_emails) ==
    Serial(StudentCreateCall(student, slotId, group_id, profile_group_id,
                             mentor_emails))

FacultyCancel(faculty, bookingId, reason) ==
    Serial(FacultyCancelCall(faculty, bookingId, reason))

StudentCancel(student, bookingId, reason) ==
    Serial(StudentCancelCall(student, bookingId, reason))

\* timezone.now() moves on
Tick ==
    /\ now < MaxTime
    /\ now' = now + 1
    /\ UNCHANGED <<users, slots, bookings, perms, locks, txn>>

\* the state before the first request: the users that have logged in and the
\* slots the faculty have published
Start(t, userIds, slotRows) ==
    /\ now = t
    /\ users = userIds
    /\ slots = slotRows
    /\ bookings = {}
    /\ perms = {}
    /\ locks = [p \in Procs |-> NoLocks]
    /\ txn = [p \in Procs |-> Idle]

\* two students, one faculty; slot 1 starts now, slot 2 in nine hours
Init ==
    Start(10, {"A", "B", "F1"},
          {Slot(1, "F1", "Web Development", 10, 11),
           Slot(2, "F1", "Web Development", 19, 20)})

\* one student and three later slots of one faculty in one subject
InitAbsence ==
    Start(10, {"A", "F1"},
          {Slot(1, "F1", "Web Development", 11, 12),
           Slot(2, "F1", "Web Development", 12, 13),
           Slot(3, "F1", "Web Development", 13, 14)})

\* one slot that starts at 9, seen from nine hours before to two hours after
InitWindow ==
    Start(0, {"A", "F1"}, {Slot(1, "F1", "Web Development", 9, 10)})

Next ==
    \/ \E s \in SlotIds, st \in users \cap Students, g \in GroupIds :
          CreateBooking(s, st, g)
    \/ \E b \in BookingIds, r \in Reasons, f \in BOOLEAN : Cancel(b, r, f)
    \/ \E f \in users \cap Faculty, b \in BookingIds : MarkAbsent(f, b)
    \/ \E f \in users \cap Faculty, b \in BookingIds : MarkCompleted(f, b)
    \/ \E f \in users \cap Faculty, b \in BookingIds :
          AllowRebookingForBooking(f, b)
    \/ \E f \in users \cap Faculty, st \in users \cap Students,
          sub \in ALLOWED_SUBJECTS : AllowRebooking(f, st, sub)
    \/ \E f \in users \cap Faculty, s \in SlotIds : DestroySlot(f, s)
    \/ Tick

Spec == Init /\ [][Next]_vars

SpecAbsence == InitAbsence /\ [][Next]_vars

SpecWindow == InitWindow /\ [][Next]_vars

\* slot 1 carries a booking marked Absent before the column absent_at
\* existed (it is NULL); slot 2 is free and starts in nine hours
InitLegacy ==
    /\ now = 10
    /\ users = {"A", "B", "F1"}
    /\ slots = {[Slot(1, "F1", "Web Development", 9, 10)
                   EXCEPT !.is_available = FALSE],
                Slot(2, "F1", "Web Development", 19, 20)}
    /\ bookings = {[NewBooking(1, 1, "B", "T2", 8) EXCEPT !.status = ABSENT]}
    /\ perms = {}
    /\ locks = [p \in Procs |-> NoLocks]
    /\ txn = [p \in Procs |-> Idle]

\* the requests of Next, the two faculty viewset actions and the faculty's
\* cancel view
NextFaculty ==
    \/ Next
    \/ \E f \in users \cap Faculty, b \in BookingIds : Complete(f, b)
    \/ \E f \in users \cap Faculty : DeleteTodaysSlots(f)
    \/ \E f \in users \cap Faculty, b \in BookingIds, r \in Reasons :
          FacultyCancel(f, b, r)

SpecFaculty == InitLegacy /\ [][NextFaculty]_vars

\* --------------------------------------------------- grants of permissions
\* one student; a slot of F1 and a slot of F2 in one subject, a slot of F0
\* (who has no pbl_user_id) in the other one
InitGrant ==
    Start(9, {"A", "F1", "F2", "F0"},
          {Slot(1, "F1", "Web Development", 11, 12),
           Slot(2, "F2", "Web Development", 11, 12),
           Slot(3, "F0", "Compiler Design", 11, 12)})

\* the student books for team T1, the faculty mark and grant
NextGrant ==
    \/ \E s \in SlotIds, st \in users \cap Students :
          CreateBooking(s, st, "T1")
    \/ \E f \in users \cap Faculty, b \in BookingIds : MarkAbsent(f, b)
    \/ \E f \in users \cap Faculty, b \in BookingIds :
          AllowRebookingForBooking(f, b)
    \/ \E f \in users \cap Faculty, st \in users \cap Students,
          sub \in ALLOWED_SUBJECTS : AllowRebooking(f, st, sub)
    \/ Tick

SpecGrant == InitGrant /\ [][NextGrant]_vars

\* ----------------------------------------------- absences old and new
\* slot 1 of F1 carries an Absent booking of A from before the column
\* absent_at existed; slot 2 of F1 and slot 3 of F2 are free, same subject
InitRoster ==
    /\ now = 10
    /\ users = {"A", "F1", "F2"}
    /\ slots = {[Slot(1, "F1", "Web Development", 9, 10)
                   EXCEPT !.is_available = FALSE],
                Slot(2, "F1", "Web Development", 19, 20),
                Slot(3, "F2", "Web Development", 19, 20)}
    /\ bookings = {[NewBooking(1, 1, "A", "T1", 8) EXCEPT !.status = ABSENT]}
    /\ perms = {}
    /\ locks = [p \in Procs |-> NoLocks]
    /\ txn = [p \in Procs |-> Idle]

SpecRoster == InitRoster /\ [][NextGrant]_vars

\* ------------------------------------------------------- slots are moved
MaxHour == 14

\* the hours a request can name; None for a field that is left out
Hours == 11..MaxHour

\* two slots of F1 an hour apart and one of F2 that lies across them; the
\* first hour a request can name is the current one
InitSlots ==
    Start(11, {"A", "F1", "F2"},
          {Slot(1, "F1", "Web Development", 11, 12),
           Slot(2, "F1", "Web Development", 13, 14),
           Slot(3, "F2", "Web Development", 11, 13)})

NextSlots ==
    \/ \E f \in users \cap Faculty, s \in SlotIds, partial \in BOOLEAN,
          start \in Hours \cup {None}, end \in Hours \cup {None} :
          UpdateSlot(f, s, start, end, partial)
    \/ \E s \in SlotIds, st \in users \cap Students :
          CreateBooking(s, st, "T1")

SpecSlots == InitSlots /\ [][NextSlots]_vars

\* the same slots an hour before the first of them starts
InitMove ==
    Start(10, {"A", "F1", "F2"},
          {Slot(1, "F1", "Web Development", 11, 12),
           Slot(2, "F1", "Web Development", 13, 14),
           Slot(3, "F2", "Web Development", 11, 13)})

SpecMove == InitMove /\ [][NextSlots]_vars

\* --------------------------------------------- the student request layer
\* what a client can send as group_id
RequestedGroupIds == {"", "T1", " T1 ", "T2"}

\* what the resolver can return as team id (None is written "")
ProfileGroupIds == {"", "T1", " T2 "}

\* what the resolver can return as mentor emails
MentorSets == SUBSET {email("F1"), email("F2")}

\* one slot of F1 and one of F2, hours ahead
InitStudent ==
    Start(10, {"A", "F1", "F2"},
          {Slot(1, "F1", "Web Development", 19, 20),
           Slot(2, "F2", "Web Development", 19, 20)})

NextStudent ==
    \/ \E st \in users \cap Students, s \in SlotIds,
          g \in RequestedGroupIds, d \in ProfileGroupIds, ms \in MentorSets :
          StudentCreate(st, s, g, d, ms)
    \/ \E b \in BookingIds, r \in Reasons : Cancel(b, r, TRUE)
    \/ \E f \in users \cap Faculty, b \in BookingIds : MarkAbsent(f, b)
    \/ Tick

SpecStudent == InitStudent /\ [][NextStudent]_vars

\* ------------------------------------------------ two requests interleaved
StartCreate(p, slotId, student, group_id) ==
    /\ txn[p].pc = "idle"
    /\ Apply(Begin(World, p, CreateCall(slotId, student, group_id)))

StartCancel(p, bookingId, reason, force) ==
    /\ txn[p].pc = "idle"
    /\ Apply(Begin(World, p, CancelCall(bookingId, reason, force)))

StartMarkAbsent(p, faculty, bookingId) ==
    /\ txn[p].pc = "idle"
    /\ Apply(Begin(World, p, MarkAbsentCall(faculty, bookingId)))

StartMarkCompleted(p, faculty, bookingId) ==
    /\ txn[p].pc = "idle"
    /\ Apply(Begin(World, p, MarkCompletedCall(faculty, bookingId)))

StartAllowForBooking(p, faculty, bookingId) ==
    /\ txn[p].pc = "idle"
    /\ Apply(Begin(World, p, AllowForBookingCall(faculty, bookingId)))

StartDestroy(p, faculty, slotId) ==
    /\ txn[p].pc = "idle"
    /\ Apply(Begin(World, p, DestroyCall(faculty, slotId)))

\* the next statement of the request of p, once it does not wait for a lock
Statement(p) ==
    /\ txn[p].pc # "idle"
    /\ ~Waits(World, p)
    /\ LET w == Handler(World, p)
       IN Apply(IF w.txn[p].pc = "idle" THEN Served(w, p) ELSE w)

\* one slot that starts in an hour, one student, one faculty
InitConc ==
    Start(10, {"A", "F1"}, {Slot(1, "F1", "Web Development", 11, 12)})

NextConc ==
    \/ \E p \in Procs, s \in SlotIds, st \in users \cap Students,
          g \in GroupIds : StartCreate(p, s, st, g)
    \/ \E p \in Procs, b \in BookingIds, r \in Reasons, f \in BOOLEAN :
          StartCancel(p, b, r, f)
    \/ \E p \in Procs, f \in users \cap Faculty, b \in BookingIds :
          StartMarkAbsent(p, f, b)
    \/ \E p \in Procs, f \in users \cap Faculty, b \in BookingIds :
          StartMarkCompleted(p, f, b)
    \/ \E p \in Procs, f \in users \cap Faculty, b \in BookingIds :
          StartAllowForBooking(p, f, b)
    \/ \E p \in Procs, f \in users \cap Faculty, s \in SlotIds :
          StartDestroy(p, f, s)
    \/ \E p \in Procs : Statement(p)
    \/ Tick

SpecConc == InitConc /\ [][NextConc]_vars

\* ---------------------------------- slot deletions against bookings
StartDeleteTodays(p, faculty) ==
    /\ txn[p].pc = "idle"
    /\ Apply(Begin(World, p, DeleteTodaysCall(faculty)))

NextDelete ==
    \/ \E p \in Procs, s \in SlotIds, st \in users \cap Students,
          g \in GroupIds : StartCreate(p, s, st, g)
    \/ \E p \in Procs, b \in BookingIds, r \in Reasons, f \in BOOLEAN :
          StartCancel(p, b, r, f)
    \/ \E p \in Procs, f \in users \cap Faculty, s \in SlotIds :
          StartDestroy(p, f, s)
    \/ \E p \in Procs, f \in users \cap Faculty : StartDeleteTodays(p, f)
    \/ \E p \in Procs : Statement(p)
    \/ Tick

SpecDelete == InitConc /\ [][NextDelete]_vars

\* ------------------------------- requests that write what they read
\* the team of a student
TeamOf(student) == IF student = "A" THEN "T1" ELSE "T2"

\* one slot nine hours ahead, two students of two teams
InitStale ==
    Start(10, {"A", "B", "F1"}, {Slot(1, "F1", "Web Development", 19, 20)})

\* create, cancel and markAbsent on two connections, statement by statement
NextStale ==
    \/ \E p \in Procs, s \in SlotIds, st \in users \cap Students :
          StartCreate(p, s, st, TeamOf(st))
    \/ \E p \in Procs, b \in BookingIds, r \in Reasons, f \in BOOLEAN :
          StartCancel(p, b, r, f)
    \/ \E p \in Procs, f \in users \cap Faculty, b \in BookingIds :
          StartMarkAbsent(p, f, b)
    \/ \E p \in Procs : Statement(p)

SpecStale == InitStale /\ [][NextStale]_vars

\* ------------------------------------------- the slots of today are deleted
\* two slots of F1 today and one tomorrow, one slot of F2 today
InitToday ==
    Start(10, {"A", "F1", "F2"},
          {Slot(1, "F1", "Web Development", 19, 20),
           Slot(2, "F1", "Compiler Design", 20, 21),
           Slot(3, "F1", "Web Development", 43, 44),
           Slot(4, "F2", "Web Development", 19, 20)})

\* the student books and cancels, the faculty mark and delete
NextToday ==
    \/ \E s \in SlotIds, st \in users \cap Students :
          CreateBooking(s, st, TeamOf(st))
    \/ \E b \in BookingIds, r \in Reasons : Cancel(b, r, TRUE)
    \/ \E f \in users \cap Faculty, b \in BookingIds : MarkAbsent(f, b)
    \/ \E f \in users \cap Faculty, b \in BookingIds : MarkCompleted(f, b)
    \/ \E f \in users \cap Faculty : DeleteTodaysSlots(f)

SpecToday == InitToday /\ [][NextToday]_vars

\* ------------------------------------------- requests of those who own
StartStudentCancel(p, student, bookingId, reason) ==
    /\ txn[p].pc = "idle"
    /\ Apply(Begin(World, p, StudentCancelCall(student, bookingId, reason)))

\* one slot of F1 nine hours ahead; F2 has no slot; two students
InitOwner ==
    Start(10, {"A", "B", "F1", "F2"},
          {Slot(1, "F1", "Web Development", 19, 20)})

\* the students create and cancel and the faculty mark, on two connections
NextOwner ==
    \/ \E p \in Procs, s \in SlotIds, st \in users \cap Students :
          StartCreate(p, s, st, TeamOf(st))
    \/ \E p \in Procs, st \in users \cap Students, b \in BookingIds,
          r \in Reasons : StartStudentCancel(p, st, b, r)
    \/ \E p \in Procs, f \in users \cap Faculty, b \in BookingIds :
          StartMarkAbsent(p, f, b)
    \/ \E p \in Procs : Statement(p)

SpecOwner == InitOwner /\ [][NextOwner]_vars

\* the same requests and the other requests of the faculty, one at a time
NextOwnerSerial ==
    \/ \E s \in SlotIds, st \in users \cap Students :
          CreateBooking(s, st, TeamOf(st))
    \/ \E st \in users \cap Students, b \in BookingIds, r \in Reasons :
          StudentCancel(st, b, r)
    \/ \E f \in users \cap Faculty, b \in BookingIds : MarkAbsent(f, b)
    \/ \E f \in users \cap Faculty, b \in BookingIds : MarkCompleted(f, b)
    \/ \E f \in users \cap Faculty, b \in BookingIds, r \in Reasons :
          FacultyCancel(f, b, r)
    \/ \E f \in users \cap Faculty, b \in BookingIds :
          AllowRebookingForBooking(f, b)
    \/ Tick

SpecOwnerSerial == InitOwner /\ [][NextOwnerSerial]_vars

\* ------------------------------------------------ lock waits and cycles
\* a finished request leaves only its result behind
Replied(w, p) == [w EXCEPT !.txn[p] = [Idle EXCEPT !.result = w.txn[p].result]]

\* the next statement of the request of p can run
StatementEnabled(p) == txn[p].pc # "idle" /\ ~Waits(World, p)

LockStatement(p) ==
    /\ StatementEnabled(p)
    /\ LET w == Handler(World, p)
       IN Apply(IF w.txn[p].pc = "idle" THEN Replied(w, p) ELSE w)

\* a database without deadlock detection
NoDetector == FALSE

\* every request waits for a row lock that another request holds
Deadlocked ==
    \A p \in Procs : txn[p].pc # "idle" /\ Waits(World, p)

\* PostgreSQL's deadlock detector ends one transaction of the cycle with an
\* error; its locks are released
DeadlockAbort(p) ==
    /\ Deadlocked
    /\ Apply(Replied(Rollback(World, p, "DeadlockDetected"), p))

\* two free slots of one faculty and one student
InitLock ==
    Start(10, {"A", "F1"},
          {Slot(1, "F1", "Web Development", 19, 20),
           Slot(2, "F1", "Web Development", 20, 21)})

\* the student (team T1) creates on either connection and cancels on p1;
\* the faculty's requests arrive on p2
NextLock ==
    \/ \E p \in Procs, s \in SlotIds, st \in users \cap Students :
          StartCreate(p, s, st, "T1")
    \/ \E b \in BookingIds, r \in Reasons : StartCancel("p1", b, r, FALSE)
    \/ \E f \in users \cap Faculty, b \in BookingIds :
          StartMarkAbsent("p2", f, b)
    \/ \E f \in users \cap Faculty, b \in BookingIds :
          StartMarkCompleted("p2", f, b)
    \/ \E f \in users \cap Faculty, b \in BookingIds :
          StartAllowForBooking("p2", f, b)
    \/ \E p \in Procs : LockStatement(p)
    \/ \E p \in Procs : DeadlockAbort(p)

SpecLock == InitLock /\ [][NextLock]_vars

\* SF_vars(LockStatement(p)): a lock that is released goes to a request that
\* waits for it (the enabling condition is written out)
StatementFair(p) ==
    <>[](~StatementEnabled(p)) \/ []<><<LockStatement(p)>>_vars

\* WF_vars(\E p \in Procs : DeadlockAbort(p)): the deadlock detector runs
DetectorFair ==
    <>[](~Deadlocked) \/ []<><<\E p \in Procs : DeadlockAbort(p)>>_vars

SpecLockFair ==
    /\ SpecLock
    /\ \A p \in Procs : StatementFair(p)
    /\ DetectorFair

\* ------------------------------------- two create requests, one per caller
\* each caller sends one create; the call and its result stay on record
RaceCreate(p, slotId, student, group_id) ==
    /\ txn[p].op = "none"
    /\ Apply(Begin(World, p, CreateCall(slotId, student, group_id)))

RaceStatement(p) ==
    /\ txn[p].pc # "idle"
    /\ ~Waits(World, p)
    /\ Apply(Handler(World, p))

\* two free slots of one subject, hours ahead, and no booking rows
InitRace ==
    Start(10, {"A", "B", "F1"},
          {Slot(1, "F1", "Web Development", 19, 20),
           Slot(2, "F1", "Web Development", 20, 21)})

NextRace ==
    \/ \E p \in Procs, s \in SlotIds, st \in users \cap Students,
          g \in GroupIds : RaceCreate(p, s, st, g)
    \/ \E p \in Procs : RaceStatement(p)
    \/ Tick

SpecRace == InitRace /\ [][NextRace]_vars

\* ------------------------------------ what follows a booking marked Absent
\* the faculty sends one markAbsent; the call and its result stay on record
RaceMarkAbsent(p, faculty, bookingId) ==
    /\ txn[p].op = "none"
    /\ Apply(Begin(World, p, MarkAbsentCall(faculty, bookingId)))

\* the students create and cancel on p1, the faculty marks once on p2
NextTerminal ==
    \/ \E s \in SlotIds, st \in users \cap Students :
          StartCreate("p1", s, st, TeamOf(st))
    \/ \E b \in BookingIds, r \in Reasons, f \in BOOLEAN :
          StartCancel("p1", b, r, f)
    \/ Statement("p1")
    \/ \E f \in users \cap Faculty, b \in BookingIds :
          RaceMarkAbsent("p2", f, b)
    \/ RaceStatement("p2")

SpecTerminal == InitStale /\ [][NextTerminal]_vars

\* =============================================================== properties
\* the result of a request served alone in the current state
Result(call) == Outcome(call).txn["p1"].result

Tables(w) == <<w.slots, w.bookings, w.perms>>

\* the request leaves the three tables as they are
Unchanged(call) == Tables(Outcome(call)) = Tables(World)

\* the request served last, and how it ended
LastCall(op, result) == txn["p1"].op = op /\ txn["p1"].result = result

ConfirmedOfTeam(g, subject) ==
    {b \in bookings :
        /\ b.status = CONFIRMED
        /\ b.group_id = g
        /\ \E s \in slots : s.id = b.slot /\ s.subject = subject}

AbsencesWith(student, subject, faculty) ==
    {b \in bookings :
        /\ b.status = ABSENT
        /\ b.student = student
        /\ \E s \in slots :
              s.id = b.slot /\ s.subject = subject /\ s.faculty = faculty}

\* a permission of that faculty, not older than any of the absences
AbsenceCovered(student, subject, faculty) ==
    \E r \in perms :
        /\ r.student = student
        /\ r.subject = subject
        /\ r.teacher_external_id = pbl_user_id(faculty)
        /\ \A b \in AbsencesWith(student, subject, faculty) :
              r.updated_at >= b.absent_at

\* C1: every slot is referenced by at most one booking row, whatever the
\* requests and however they interleave; so a slot never has two Confirmed
\* bookings.
C1_OneBookingPerSlot ==
    /\ \A a \in bookings, b \in bookings : a.slot = b.slot => a = b
    /\ \A s \in SlotIds :
          Cardinality({b \in bookings :
                          b.slot = s /\ b.status = CONFIRMED}) <= 1

\* a create reached the insert on a slot that a row references already
C1_Witness ==
    /\ \E p \in Procs : txn[p].op = "create" /\ txn[p].result = "IntegrityError"
    /\ \E b \in bookings : b.status = ABSENT

\* C2: with requests served one at a time, a team has at most one Confirmed
\* booking per subject, and a create for a team and subject that has one is
\* rejected and writes nothing (with TeamConflict when the slot is free).
C2_TeamSubjectUnique ==
    /\ \A g \in GroupIds, sub \in ALLOWED_SUBJECTS :
          Cardinality(ConfirmedOfTeam(g, sub)) <= 1
    /\ \A s \in slots, st \in users \cap Students, g \in GroupIds :
          ConfirmedOfTeam(g, s.subject) # {} =>
             /\ Result(CreateCall(s.id, st, g)) # "ok"
             /\ Unchanged(CreateCall(s.id, st, g))
             /\ s.is_available =>
                   Result(CreateCall(s.id, st, g)) = "TeamConflict"

C2_Witness ==
    /\ LastCall("create", "TeamConflict")
    /\ \E g \in GroupIds, sub \in ALLOWED_SUBJECTS :
          Cardinality(ConfirmedOfTeam(g, sub)) = 1
    /\ \E s \in slots : s.is_available

\* both callers of the race have their answer
BothCreated ==
    \A p \in Procs : txn[p].op = "create" /\ txn[p].pc = "idle"

RaceResults == {txn[p].result : p \in Procs}

\* C3: two teammates create on two different free slots of one subject while
\* the team has no booking row for it; at most one create is confirmed and
\* the other one is rejected with TeamConflict.
C3_TeammatesRace ==
    (/\ BothCreated
     /\ txn["p1"].group_id = txn["p2"].group_id
     /\ txn["p1"].group_id # ""
     /\ txn["p1"].student # txn["p2"].student
     /\ txn["p1"].slot # txn["p2"].slot)
    => RaceResults = {"ok", "TeamConflict"}

\* C4: two callers create on the same free slot that lies ahead; exactly one
\* create is confirmed, the other one is rejected with SlotUnavailable, and
\* the slot ends taken, with a single booking row.
C4_SameSlotRace ==
    (/\ BothCreated
     /\ txn["p1"].slot = txn["p2"].slot
     /\ txn["p1"].group_id # "" /\ txn["p2"].group_id # ""
     /\ \E s \in slots : s.id = txn["p1"].slot /\ s.start_time > now)
    => /\ RaceResults = {"ok", "SlotUnavailable"}
       /\ \A s \in slots : s.id = txn["p1"].slot => ~s.is_available
       /\ Cardinality({b \in bookings : b.slot = txn["p1"].slot}) = 1
       /\ \A b \in bookings : b.slot = txn["p1"].slot => b.status = CONFIRMED

C4_Witness ==
    /\ BothCreated
    /\ txn["p1"].slot = txn["p2"].slot
    /\ txn["p1"].student # txn["p2"].student
    /\ txn["p1"].group_id # "" /\ txn["p2"].group_id # ""
    /\ txn["p1"].group_id # txn["p2"].group_id
    /\ txn["p2"].result = "ok" /\ txn["p1"].result = "SlotUnavailable"

C6_RebookAfterGrant ==
    /\ (\/ LastCall("allow", "ok")
        \/ LastCall("allow_booking", "ok"))
       => \E st \in users \cap Students, s \in slots :
             /\ AbsencesWith(st, s.subject, s.faculty) # {}
             /\ AbsenceCovered(st, s.subject, s.faculty)
    /\ \A s \in slots, st \in users \cap Students, g \in GroupIds \ {""} :
          (/\ AbsencesWith(st, s.subject, s.faculty) # {}
           /\ AbsenceCovered(st, s.subject, s.faculty)
           /\ s.is_available
           /\ s.start_time > now
           /\ ConfirmedOfTeam(g, s.subject) = {})
          => /\ Result(CreateCall(s.id, st, g)) = "ok"
             /\ \E b \in Outcome(CreateCall(s.id, st, g)).bookings :
                   /\ b.slot = s.id
                   /\ b.student = st
                   /\ b.status = CONFIRMED

\* a student who was marked absent holds a booking confirmed later
C6_Witness ==
    /\ LastCall("create", "ok")
    /\ perms # {}
    /\ \E a \in bookings, b \in bookings :
          /\ a.status = ABSENT
          /\ b.status = CONFIRMED
          /\ b.student = a.student
          /\ b.updated_at >= a.absent_at

\* C7: a create that succeeds leaves its slot taken and the booking
\* Confirmed; a cancel of a Confirmed booking that succeeds leaves the
\* booking Cancelled and its slot free; both rows change in the one commit.
C7_AvailabilityFollowsBooking ==
    /\ \A s \in SlotIds, st \in users \cap Students, g \in GroupIds :
          Result(CreateCall(s, st, g)) = "ok" =>
             LET w == Outcome(CreateCall(s, st, g))
             IN /\ ~SlotById(w, s).is_available
                /\ \E b \in w.bookings : b.slot = s /\ b.status = CONFIRMED
    /\ \A b \in bookings, r \in Reasons, f \in BOOLEAN :
          (b.status = CONFIRMED /\ Result(CancelCall(b.id, r, f)) = "ok") =>
             LET w == Outcome(CancelCall(b.id, r, f))
             IN /\ SlotById(w, b.slot).is_available
                /\ BookingById(w, b.id).status = CANCELLED

C7_Witness ==
    /\ LastCall("cancel", "ok")
    /\ \E b \in bookings, s \in slots :
          b.status = CANCELLED /\ s.id = b.slot /\ s.is_available

\* C8: a create or a cancel that ends with an error, whichever statement
\* raised it, leaves the slots, bookings and permissions as they were.
C8_ErrorsWriteNothing ==
    /\ \A s \in SlotIds, st \in users \cap Students, g \in GroupIds :
          Result(CreateCall(s, st, g)) # "ok" =>
             Unchanged(CreateCall(s, st, g))
    /\ \A b \in BookingIds, r \in Reasons, f \in BOOLEAN :
          Result(CancelCall(b, r, f)) # "ok" => Unchanged(CancelCall(b, r, f))

\* a create failed on the save of the slot, after the booking row was written
C8_Witness ==
    /\ LastCall("create", "SlotValidationError")
    /\ \E s \in slots : s.is_available /\ s.start_time < now

\* C9: a cancel without force of a Confirmed booking is refused with
\* CancellationWindowViolation, and changes nothing, exactly when
\* now >= start_time - 8 hours; before that it succeeds.
C9_CancellationWindow ==
    \A b \in bookings, r \in Reasons :
        b.status = CONFIRMED =>
           LET start == SlotById(World, b.slot).start_time
               call == CancelCall(b.id, r, FALSE)
           IN /\ now >= start - 8 =>
                   /\ Result(call) = "CancellationWindowViolation"
                   /\ Unchanged(call)
              /\ now < start - 8 =>
                   /\ Result(call) = "ok"
                   /\ BookingById(Outcome(call), b.id).status = CANCELLED

\* a cancel was refused at the very hour the window closes
C9_Witness ==
    /\ LastCall("cancel", "CancellationWindowViolation")
    /\ \E b \in bookings, s \in slots :
          b.status = CONFIRMED /\ s.id = b.slot /\ now = s.start_time - 8

\* C10: a cancel with force of a Confirmed booking makes it Cancelled and
\* frees its slot at every time, inside the window and at or after the start
\* of the slot alike.
C10_ForcedCancelAlways ==
    \A b \in bookings, r \in Reasons :
        b.status = CONFIRMED =>
           LET w == Outcome(CancelCall(b.id, r, TRUE))
           IN /\ w.txn["p1"].result = "ok"
              /\ BookingById(w, b.id).status = CANCELLED
              /\ SlotById(w, b.slot).is_available

\* the state after a request served alone in state w
After(w, call) == Served(Run(Begin(w, "p1", call), "p1"), "p1")

\* w differs from the current state at most in the booking row id
OnlyBookingTouched(w, id) ==
    /\ w.slots = slots
    /\ w.perms = perms
    /\ {b \in w.bookings : b.id # id} = {b \in bookings : b.id # id}
    /\ {b.id : b \in w.bookings} = BookingIds

\* C11: markAbsent on a booking that is Absent succeeds, keeps it Absent
\* and leaves an absent_at that is set as it is (a missing one is filled in);
\* two calls in a row on a Confirmed booking both succeed and end in the
\* state the first call produced.
C11_MarkAbsentIdempotent ==
    \A f \in users \cap Faculty, b \in bookings :
        SlotOf(World, b).faculty = f =>
           LET call == MarkAbsentCall(f, b.id)
               once == After(World, call)
               twice == After(once, call)
           IN /\ b.status = ABSENT =>
                   /\ once.txn["p1"].result = "ok"
                   /\ BookingById(once, b.id).status = ABSENT
                   /\ OnlyBookingTouched(once, b.id)
                   /\ b.absent_at # None => Tables(once) = Tables(World)
                   /\ b.absent_at = None =>
                         BookingById(once, b.id).absent_at = b.updated_at
              /\ b.status = CONFIRMED =>
                   /\ once.txn["p1"].result = "ok"
                   /\ twice.txn["p1"].result = "ok"
                   /\ BookingById(once, b.id).status = ABSENT
                   /\ Tables(twice) = Tables(once)

\* a repeated markAbsent succeeded in an hour in which no row was written
C11_Witness ==
    /\ LastCall("mark_absent", "ok")
    /\ \E b \in bookings : b.status = ABSENT /\ b.absent_at # None
    /\ \A b \in bookings : b.updated_at < now

\* C12: markCompleted is idempotent through the mark-completed endpoint and
\* through the complete action of the faculty booking viewset: on a Completed
\* booking it succeeds and changes nothing, and two calls in a row on a
\* Confirmed booking both succeed and leave it Completed.
C12_MarkCompletedIdempotent ==
    \A f \in users \cap Faculty, b \in bookings :
        SlotOf(World, b).faculty = f =>
           \A call \in {MarkCompletedCall(f, b.id), CompleteCall(f, b.id)} :
              LET once == After(World, call)
                  twice == After(once, call)
              IN /\ b.status = COMPLETED =>
                      /\ once.txn["p1"].result = "ok"
                      /\ Tables(once) = Tables(World)
                 /\ b.status = CONFIRMED =>
                      /\ once.txn["p1"].result = "ok"
                      /\ twice.txn["p1"].result = "ok"
                      /\ BookingById(twice, b.id).status = COMPLETED

\* C13: markAbsent and markCompleted change nothing but status, absent_at
\* and updated_at of their booking: every slot (the booked one stays taken),
\* every other booking and every permission stay as they are.
C13_MarksTouchOneRow ==
    \A f \in users \cap Faculty, b \in bookings :
        \A call \in {MarkAbsentCall(f, b.id), MarkCompletedCall(f, b.id)} :
           LET w == After(World, call)
               row == BookingById(w, b.id)
           IN /\ OnlyBookingTouched(w, b.id)
              /\ [row EXCEPT !.status = b.status, !.absent_at = b.absent_at,
                             !.updated_at = b.updated_at] = b
              /\ ~SlotOf(World, b).is_available => ~SlotOf(w, row).is_available

\* a booking was marked while another booking and a permission existed
C13_Witness ==
    /\ \/ LastCall("mark_absent", "ok")
       \/ LastCall("mark_completed", "ok")
    /\ \E b \in bookings, c \in bookings :
          /\ b.status \in {ABSENT, COMPLETED}
          /\ b.updated_at = now
          /\ ~SlotOf(World, b).is_available
          /\ c.id # b.id
    /\ perms # {}

StatusSteps ==
    {<<CONFIRMED, CANCELLED>>, <<CONFIRMED, COMPLETED>>, <<CONFIRMED, ABSENT>>,
     <<CANCELLED, CONFIRMED>>}

\* C14: in every step of every sequence of requests a booking row keeps its
\* status or moves Confirmed -> Cancelled, Confirmed -> Completed,
\* Confirmed -> Absent or Cancelled -> Confirmed, the last one only in a
\* create on the slot of the row; a Completed or Absent row keeps its status.
C14_StatusTransitions ==
    [][\A b \in bookings, c \in bookings' :
          c.id = b.id =>
             /\ c.status = b.status \/ <<b.status, c.status>> \in StatusSteps
             /\ (b.status = CANCELLED /\ c.status = CONFIRMED) =>
                   /\ c.slot = b.slot
                   /\ txn'["p1"].op = "create"
                   /\ txn'["p1"].result = "ok"]_vars

\* a cancel of a booking that is Absent or Completed was refused
C14_Witness ==
    /\ LastCall("cancel", "InvalidState")
    /\ \E b \in bookings : b.status = ABSENT
    /\ \E b \in bookings : b.status = COMPLETED

\* C15: no step of any interleaving of requests, slot deletions included,
\* removes a booking that is Confirmed, Completed or Absent.
C15_HistoryKept ==
    [][\A b \in bookings :
          b.status \in {CONFIRMED, COMPLETED, ABSENT} =>
             \E c \in bookings' : c.id = b.id]_vars

\* C16: no reachable state has the two requests each waiting for a row lock
\* that the other one holds.
C16_NoLockCycle == ~Deadlocked

\* C17: every request that has started ends, with a commit or with an error.
C17_EveryCallEnds ==
    \A p \in Procs : (txn[p].pc # "idle") ~> (txn[p].pc = "idle")

\* a request left a lock cycle with an error
C17_Witness ==
    \E p \in Procs :
        /\ txn[p].pc = "idle"
        /\ txn[p].result = "DeadlockDetected"
        /\ \E q \in Procs : txn[q].pc # "idle"

\* C18: a create on a slot with start_time <= now, start_time = now
\* included, is refused and leaves bookings and slots as they are.
C18_PastSlotRefused ==
    \A s \in slots, st \in users \cap Students, g \in GroupIds :
        s.start_time <= now =>
           /\ Result(CreateCall(s.id, st, g)) # "ok"
           /\ Unchanged(CreateCall(s.id, st, g))

\* C19: a create with an empty team id is refused for every slot and every
\* student, and writes no booking and no slot.
C19_TeamIdRequired ==
    \A s \in SlotIds, st \in users \cap Students :
        /\ Result(CreateCall(s, st, "")) # "ok"
        /\ Unchanged(CreateCall(s, st, ""))

\* a create without team id was refused on a slot that was free
C19_Witness ==
    /\ LastCall("create", "GroupRequired")
    /\ \E s \in slots : s.is_available /\ s.start_time > now

\* C20: a create that succeeds on a slot holding a Cancelled booking inserts
\* no row: the row keeps its id and gets the caller's student and team id,
\* status Confirmed, no cancelled_at and an empty cancellation_reason, and
\* the slot has one booking row; on a slot without booking a Confirmed row
\* of the caller is inserted.
C20_CancelledRowReused ==
    \A s \in SlotIds, st \in users \cap Students, g \in GroupIds :
        Result(CreateCall(s, st, g)) = "ok" =>
           LET w == Outcome(CreateCall(s, st, g))
               old == {b \in bookings : b.slot = s}
               new == {b \in w.bookings : b.slot = s}
           IN /\ Cardinality(new) = 1
              /\ \A b \in new :
                    /\ b.student = st
                    /\ b.group_id = g
                    /\ b.status = CONFIRMED
                    /\ b.cancelled_at = None
                    /\ b.cancellation_reason = ""
              /\ old # {} =>
                    /\ \A e \in old : e.status = CANCELLED
                    /\ {b.id : b \in new} = {e.id : e \in old}
                    /\ Cardinality(w.bookings) = Cardinality(bookings)
              /\ old = {} =>
                    /\ w.bookings = bookings \cup new
                    /\ Cardinality(w.bookings) = Cardinality(bookings) + 1

\* after a cancel, a create of another student takes over the Cancelled row
C20_Witness ==
    /\ LastCall("cancel", "ok")
    /\ \E e \in bookings, st \in users \cap Students :
          /\ e.status = CANCELLED
          /\ e.cancellation_reason # ""
          /\ e.student # st
          /\ Result(CreateCall(e.slot, st, "T2")) = "ok"
          /\ BookingById(Outcome(CreateCall(e.slot, st, "T2")), e.id).student
                = st

\* C21: Booking.cancel, with force or without, on a booking that is
\* Cancelled, Completed or Absent raises InvalidState and leaves every table
\* as it is; the faculty's cancel view, which answers for a booking that is
\* not Confirmed without calling Booking.cancel, writes nothing either.
C21_CancelNeedsConfirmed ==
    \A b \in bookings :
        b.status \in {CANCELLED, COMPLETED, ABSENT} =>
           /\ \A r \in Reasons, f \in BOOLEAN :
                 /\ Result(CancelCall(b.id, r, f)) = "InvalidState"
                 /\ Unchanged(CancelCall(b.id, r, f))
           /\ \A r \in Reasons, f \in users \cap Faculty :
                 /\ Unchanged(FacultyCancelCall(f, b.id, r))
                 /\ (b.status # CANCELLED /\ SlotOf(World, b).faculty = f) =>
                       Result(FacultyCancelCall(f, b.id, r)) = "InvalidState"

\* a cancel of a Cancelled booking was refused; its slot is free
C21_Witness ==
    /\ LastCall("cancel", "InvalidState")
    /\ \E b \in bookings :
          b.status = CANCELLED /\ SlotOf(World, b).is_available
    /\ \A b \in bookings : b.status # CONFIRMED

\* the grants a faculty can send in the current state
GrantCalls(f) ==
    {AllowForBookingCall(f, b) : b \in BookingIds}
       \cup {AllowCall(f, st, sub) :
                st \in users \cap Students, sub \in ALLOWED_SUBJECTS}

\* C22: after every sequence of requests there is at most one permission
\* per student and subject; a grant that succeeds leaves, for one student and
\* subject, the single row with the external id of the faculty who granted
\* and updated_at = now, and every other row as it was; a grant of a faculty
\* without external id is refused and writes nothing.
C22_OnePermissionPerPair ==
    /\ \A st \in Students, sub \in ALLOWED_SUBJECTS :
          Cardinality({r \in perms : r.student = st /\ r.subject = sub}) <= 1
    /\ \A f \in users \cap Faculty : \A call \in GrantCalls(f) :
          LET w == Outcome(call)
          IN /\ Result(call) = "ok" =>
                   /\ pbl_user_id(f) # ""
                   /\ w.slots = slots /\ w.bookings = bookings
                   /\ \E r \in w.perms :
                         /\ r.teacher_external_id = pbl_user_id(f)
                         /\ r.updated_at = now
                         /\ \A q \in w.perms :
                               (q.student = r.student /\ q.subject = r.subject)
                                  => q = r
                         /\ {q \in w.perms : q.student # r.student
                                                \/ q.subject # r.subject}
                               = {q \in perms : q.student # r.student
                                                  \/ q.subject # r.subject}
             /\ Result(call) # "ok" => Unchanged(call)
             /\ pbl_user_id(f) = "" => Result(call) # "ok"

\* F1 has granted; a grant of F2 would now take the row over, and a grant of
\* F0 for a student marked absent on F0's slot is refused
C22_Witness ==
    /\ LastCall("allow_booking", "ok")
    /\ \E r \in perms : r.teacher_external_id = "pbl-f1" /\ r.updated_at < now
    /\ \E b \in bookings :
          LET w == Outcome(AllowForBookingCall("F2", b.id))
          IN /\ Result(AllowForBookingCall("F2", b.id)) = "ok"
             /\ \A r \in w.perms : r.teacher_external_id = "pbl-f2"
    /\ \E b \in bookings :
          Result(AllowForBookingCall("F0", b.id)) = "NotConfigured"

\* the absences of a student in a subject that no permission of the
\* booking's faculty, at least as recent as the absence, covers
OpenAbsences(student, subject) ==
    {b \in bookings :
        /\ b.student = student
        /\ b.status = ABSENT
        /\ normalize_subject(SlotOf(World, b).subject) = subject
        /\ ~\E r \in perms :
              /\ r.student = student
              /\ r.subject = subject
              /\ r.teacher_external_id = pbl_user_id(SlotOf(World, b).faculty)
              /\ r.updated_at >= AbsentTime(b)}

\* C23: the blocked-subjects view of a student has at most one entry per
\* subject, has an entry for a subject exactly when the student has an
\* Absent booking in it that no permission of the booking's faculty with
\* updated_at >= the absent time covers, and the entry is the most recent
\* of these absences.
C23_BlockedSubjects ==
    \A st \in users \cap Students :
        LET view == blocked_subjects(World, st)
        IN /\ \A d \in view, e \in view : d.subject = e.subject => d = e
           /\ \A sub \in ALLOWED_SUBJECTS :
                 (\E e \in view : e.subject = sub)
                    <=> OpenAbsences(st, sub) # {}
           /\ \A e \in view :
                 /\ e.booking_id \in
                       {b.id : b \in OpenAbsences(st, e.subject)}
                 /\ \A b \in OpenAbsences(st, e.subject) :
                       AbsentTime(b) <= e.absent_at

\* the absences of a student in a subject on the slots of a faculty
AbsencesOn(faculty, student, subject) ==
    {b \in bookings :
        /\ b.student = student
        /\ b.status = ABSENT
        /\ SlotOf(World, b).faculty = faculty
        /\ normalize_subject(SlotOf(World, b).subject) = subject}

\* C24: the absent roster of a faculty lists a (student, subject) exactly
\* when the student's most recent Absent booking for the subject on the
\* faculty's own slots has no permission with the faculty's external id and
\* updated_at >= its absent time; it lists each pair once and nothing from
\* the slots of another faculty.
C24_AbsentRoster ==
    \A f \in users \cap Faculty :
        LET view == absent_students(World, f)
        IN /\ \A d \in view, e \in view :
                 (d.student = e.student /\ d.subject = e.subject) => d = e
           /\ \A e \in view :
                 SlotOf(World, BookingById(World, e.booking_id)).faculty = f
           /\ \A st \in users \cap Students, sub \in ALLOWED_SUBJECTS :
                 (\E e \in view : e.student = st /\ e.subject = sub)
                    <=> \E b \in AbsencesOn(f, st, sub) :
                           /\ \A c \in AbsencesOn(f, st, sub) :
                                 AbsentTime(c) <= AbsentTime(b)
                           /\ ~\E r \in perms :
                                 /\ r.student = st
                                 /\ r.subject = sub
                                 /\ r.teacher_external_id = pbl_user_id(f)
                                 /\ r.updated_at >= AbsentTime(b)

\* C25: check_overlap(faculty, start, end, exclude) is true exactly when a
\* slot of that faculty other than the excluded one has start_time < end and
\* end_time > start (for start < end: the two share an hour); a slot that
\* ends at start or starts at end, the excluded slot and the slots of another
\* faculty do not count.
C25_OverlapExact ==
    \A f \in users \cap Faculty, start \in Hours, end \in Hours,
       x \in SlotIds \cup {0} :
        LET others == {s \in slots : s.faculty = f /\ s.id # x}
            found == check_overlap(World, f, start, end, x)
        IN /\ found <=> \E s \in others :
                            s.start_time < end /\ s.end_time > start
           /\ start < end =>
                 (found <=> \E s \in others : \E h \in 0..MaxHour :
                               /\ start <= h /\ h < end
                               /\ s.start_time <= h /\ h < s.end_time)
           /\ (\A s \in others : s.end_time <= start \/ s.start_time >= end)
                 => ~found

\* a slot was moved to where it touches another slot of the same faculty and
\* lies across a slot of another faculty; moving it further is refused
C25_Witness ==
    /\ LastCall("update", "Overlap")
    /\ \E s \in slots, u \in slots :
          /\ s.faculty = u.faculty /\ s.id # u.id
          /\ s.end_time = u.start_time
    /\ \E s \in slots, u \in slots :
          /\ s.faculty # u.faculty
          /\ s.start_time < u.end_time /\ s.end_time > u.start_time

\* C26: an update of a slot, full or partial, is refused while the slot has
\* a Confirmed booking, and start_time and end_time of the slot stay as they
\* are.
C26_BookedSlotNotUpdated ==
    \A f \in users \cap Faculty, s \in slots, partial \in BOOLEAN,
       start \in Hours \cup {None}, end \in Hours \cup {None} :
        (\E b \in bookings : b.slot = s.id /\ b.status = CONFIRMED) =>
           LET call == UpdateCall(f, s.id, start, end, partial)
           IN /\ Result(call) # "ok"
              /\ SlotById(Outcome(call), s.id).start_time = s.start_time
              /\ SlotById(Outcome(call), s.id).end_time = s.end_time

\* the Confirmed bookings of a student in a subject
ConfirmedOfStudent(student, subject) ==
    {b \in bookings :
        /\ b.status = CONFIRMED
        /\ b.student = student
        /\ normalize_subject(SlotOf(World, b).subject) = subject}

\* C27: a student has at most one Confirmed booking per subject; while one
\* is Confirmed, a create of the student on another slot of the subject is
\* refused and writes nothing, whatever team id it carries.
C27_OneConfirmedPerStudent ==
    /\ \A st \in users \cap Students, sub \in ALLOWED_SUBJECTS :
          Cardinality(ConfirmedOfStudent(st, sub)) <= 1
    /\ \A s \in slots, st \in users \cap Students, g \in GroupIds :
          (\E b \in ConfirmedOfStudent(st, normalize_subject(s.subject)) :
              b.slot # s.id)
          => /\ Result(CreateCall(s.id, st, g)) # "ok"
             /\ Unchanged(CreateCall(s.id, st, g))

\* C28: a booking created through the student request layer is on a slot
\* whose faculty is among the mentors the resolver returned, and carries
\* the team id the resolver returned; a request whose group_id is another
\* one than the resolver's is refused, and a refused request creates
\* nothing.
C28_MentorAndTeamFromResolver ==
    \A st \in users \cap Students, s \in slots, g \in RequestedGroupIds,
       d \in ProfileGroupIds, ms \in MentorSets :
        LET call == StudentCreateCall(st, s.id, g, d, ms)
            w == Outcome(call)
        IN /\ Result(call) = "ok" =>
                 /\ email(s.faculty) \in ms
                 /\ \E b \in w.bookings :
                       /\ b.slot = s.id /\ b.student = st
                       /\ b.status = CONFIRMED
                       /\ b.group_id = strip(d)
                       /\ w.bookings \ {b} = {c \in bookings : c.id # b.id}
           /\ strip(g) # strip(d) =>
                 Result(call) # "ok" /\ Unchanged(call)
           /\ Result(call) # "ok" => Unchanged(call)

\* a request was refused for its group_id and another for its faculty, and
\* the student holds a booking made with a mentor
C28_Witness ==
    /\ LastCall("student_create", "InvalidGroup")
    /\ \E b \in bookings : b.status = CONFIRMED /\ b.group_id = "T2"
    /\ \E s \in slots :
          /\ Result(StudentCreateCall("A", s.id, "T1", "T1", {email("F1")}))
                = "NotAuthorized"
          /\ Result(StudentCreateCall("A", s.id, "T1", "T1", {email("F2")}))
                = "ok"

\* C29: however a cancel and a markAbsent on one Confirmed booking
\* interleave, no step turns an Absent row into a Cancelled one or a
\* Cancelled row into an Absent one, and no step leaves an Absent booking on
\* a slot that is available.
C29_CancelAgainstMarkAbsent ==
    [][/\ \A b \in bookings, c \in bookings' :
             c.id = b.id =>
                <<b.status, c.status>> \notin
                   {<<ABSENT, CANCELLED>>, <<CANCELLED, ABSENT>>}
       /\ \A c \in bookings', s \in slots' :
             (c.status = ABSENT /\ s.id = c.slot) => ~s.is_available]_vars

\* C30: the commit of a cancel that loaded the booking as a Confirmed one of
\* student A, taken when the row is a Confirmed booking of another student
\* (cancelled and confirmed again by a create in between), leaves that
\* row as it is and the slot taken.
C30_LateCancelSparesRebooking ==
    [][\A p \in Procs, b \in bookings :
          (/\ txn[p].op = "cancel"
           /\ txn[p].pc = "k_save_slot"
           /\ txn'[p].pc = "idle"
           /\ b.id = txn[p].booking
           /\ b.status = CONFIRMED
           /\ b.student # txn[p].l_obj.student)
          => /\ b \in bookings'
             /\ \A s \in slots' : s.id = b.slot => ~s.is_available]_vars

\* the one markAbsent of the faculty has been answered with success
MarkedAbsent(p) ==
    /\ txn[p].op = "mark_absent"
    /\ txn[p].pc = "idle"
    /\ txn[p].result = "ok"

\* C31: once a booking has been marked Absent (the markAbsent was answered
\* with success), its slot has no Confirmed booking and no second booking
\* row, whatever requests follow and however they interleave with it.
C31_AbsentIsTerminal ==
    MarkedAbsent("p2") =>
       \A b \in bookings :
           b.slot = BookingById(World, txn["p2"].booking).slot =>
              b.status # CONFIRMED /\ b.id = txn["p2"].booking

\* the slots of a faculty that start on the current day
SlotsOfToday(f) ==
    {s \in slots : s.faculty = f /\ s.start_time \div 24 = now \div 24}

StatusesOn(s) == {b.status : b \in {x \in bookings : x.slot = s.id}}

\* C32: delete-todays-slots of a faculty deletes nothing when one of the
\* faculty's slots of today has a Confirmed booking; otherwise it deletes
\* exactly the faculty's slots of today with no booking or a Cancelled one
\* (and their bookings), and keeps every slot with a Completed or Absent
\* booking, every slot of another day or another faculty, and their bookings.
C32_DeleteTodaysAllOrNothing ==
    \A f \in users \cap Faculty :
        LET call == DeleteTodaysCall(f)
            w == Outcome(call)
            gone == {s \in SlotsOfToday(f) : StatusesOn(s) \subseteq {CANCELLED}}
        IN IF \E s \in SlotsOfToday(f) : CONFIRMED \in StatusesOn(s)
           THEN Result(call) # "ok" /\ Unchanged(call)
           ELSE /\ Result(call) = "ok"
                /\ w.slots = slots \ gone
                /\ w.bookings =
                      {b \in bookings : b.slot \notin {s.id : s \in gone}}
                /\ w.perms = perms

\* F1 has deleted a slot of today; a slot of today with an Absent booking,
\* the slot of tomorrow and a slot of F2 with a Cancelled booking are there
C32_Witness ==
    /\ LastCall("delete_todays", "ok")
    /\ Cardinality(slots) = 3
    /\ \E s \in slots : s.faculty = "F1" /\ StatusesOn(s) = {ABSENT}
    /\ \E s \in slots : s.faculty = "F1" /\ s.start_time >= 24
    /\ \E s \in slots : s.faculty = "F2" /\ StatusesOn(s) = {CANCELLED}

\* C33: in every reachable state a slot is unavailable exactly when it has
\* a booking that is Confirmed, Completed or Absent, and available exactly
\* when it has no booking or only a Cancelled one.
C33_AvailabilityMatchesBooking ==
    \A s \in slots :
        ~s.is_available <=>
            \E b \in bookings :
                b.slot = s.id /\ b.status \in {CONFIRMED, COMPLETED, ABSENT}

\* C34: after every step a Cancelled booking has cancelled_at set, a
\* Confirmed booking has no cancelled_at and an empty cancellation_reason
\* (a reused row included), a booking that the step made Absent has absent_at
\* set, and an absent_at that was set is the same after the step.
C34_TimestampsFollowStatus ==
    [][/\ \A c \in bookings' :
             /\ c.status = CANCELLED => c.cancelled_at # None
             /\ c.status = CONFIRMED =>
                   c.cancelled_at = None /\ c.cancellation_reason = ""
             /\ (c.status = ABSENT
                 /\ ~\E b \in bookings : b.id = c.id /\ b.status = ABSENT)
                   => c.absent_at # None
       /\ \A b \in bookings, c \in bookings' :
             (c.id = b.id /\ b.absent_at # None) => c.absent_at = b.absent_at
      ]_vars

\* C35: when a student of a team is Absent for a subject with a faculty and
\* the team has no Confirmed booking for the subject, a teammate without an
\* absence there creates a Confirmed booking on a free slot of that subject
\* and faculty that lies ahead, with no permission granted to anyone.
C35_LockIsPerStudent ==
    \A s \in slots, a \in bookings, st \in users \cap Students :
        (/\ a.status = ABSENT
         /\ a.student # st
         /\ a.group_id # ""
         /\ a \in AbsencesWith(a.student, s.subject, s.faculty)
         /\ AbsencesWith(st, s.subject, s.faculty) = {}
         /\ ConfirmedOfTeam(a.group_id, s.subject) = {}
         /\ s.is_available
         /\ s.start_time > now)
        => LET call == CreateCall(s.id, st, a.group_id)
           IN /\ Result(call) = "ok"
              /\ \E b \in Outcome(call).bookings :
                    /\ b.slot = s.id /\ b.student = st
                    /\ b.group_id = a.group_id /\ b.status = CONFIRMED
              /\ a \in Outcome(call).bookings

\* a student holds a Confirmed booking with the faculty and in the subject of
\* a teammate's absence, and no permission was ever granted
C35_Witness ==
    /\ LastCall("create", "ok")
    /\ perms = {}
    /\ \E a \in bookings, b \in bookings :
          /\ a.status = ABSENT /\ b.status = CONFIRMED
          /\ a.student # b.student
          /\ a.group_id = b.group_id
          /\ SlotOf(World, a).subject = SlotOf(World, b).subject
          /\ SlotOf(World, a).faculty = SlotOf(World, b).faculty
          /\ b.updated_at >= a.absent_at

\* state w with one more slot of the faculty in the subject, free and an
\* hour ahead
WithFreeSlot(w, faculty, subject) ==
    [w EXCEPT !.slots =
        @ \cup {Slot(9, faculty, subject, w.now + 1, w.now + 2)}]

\* in state w, a create of the student on a free slot of the faculty in the
\* subject, for a team without any booking, is refused for an absence
LockedWith(w, student, faculty, subject) ==
    Run(Begin(WithFreeSlot(w, faculty, subject), "p1",
              CreateCall(9, student, "T9")), "p1").txn["p1"].result
       = "AbsenceLocked"

\* C36: a student who has an absence with a faculty in a subject and is not
\* locked there (the faculty's permission covers the latest absence) gets
\* locked again only by a step in which a booking of the student on a slot of
\* that faculty and subject becomes Absent; no other request, a grant of
\* another faculty included, brings the lock back.
C36_GrantHoldsUntilNextAbsence ==
    [][\A st \in users \cap Students, f \in users \cap Faculty,
          sub \in ALLOWED_SUBJECTS :
          (/\ AbsencesWith(st, sub, f) # {}
           /\ ~LockedWith(World, st, f, sub)
           /\ LockedWith(World', st, f, sub))
          => \E c \in bookings' :
                /\ c \in AbsentBookings(World', st, sub, pbl_user_id(f))
                /\ c \notin bookings]_vars

\* C37: a grant writes a permission only for a student and subject with an
\* Absent booking of the student on a slot of the granting faculty: a grant
\* by student id without such an absence and a grant by booking id for a
\* booking that is not Absent are refused and leave the tables as they are,
\* and every permission row a grant writes has such an absence behind it.
C37_GrantNeedsAbsence ==
    \A f \in users \cap Faculty :
        /\ \A st \in users \cap Students, sub \in ALLOWED_SUBJECTS :
              AbsencesWith(st, sub, f) = {} =>
                 /\ Result(AllowCall(f, st, sub)) # "ok"
                 /\ Unchanged(AllowCall(f, st, sub))
        /\ \A b \in bookings :
              b.status # ABSENT =>
                 /\ Result(AllowForBookingCall(f, b.id)) # "ok"
                 /\ Unchanged(AllowForBookingCall(f, b.id))
        /\ \A call \in GrantCalls(f) :
              \A r \in Outcome(call).perms \ perms :
                 AbsencesWith(r.student, r.subject, f) # {}

\* F1 asked to unblock a student who was absent with F2 only, and was
\* refused; F2 can grant, and F1's grant for the Confirmed booking is refused
C37_Witness ==
    /\ LastCall("allow", "NotAbsent")
    /\ AbsencesWith("A", "Web Development", "F2") # {}
    /\ Result(AllowCall("F1", "A", "Web Development")) = "NotAbsent"
    /\ Result(AllowCall("F2", "A", "Web Development")) = "ok"
    /\ \E b \in bookings :
          /\ b.status = CONFIRMED
          /\ Result(AllowForBookingCall("F1", b.id)) = "InvalidState"

\* the requests of a faculty that name a booking
FacultyCalls(f, bookingId) ==
    {MarkAbsentCall(f, bookingId), MarkCompletedCall(f, bookingId),
     AllowForBookingCall(f, bookingId), CompleteCall(f, bookingId)}
       \cup {FacultyCancelCall(f, bookingId, r) : r \in Reasons}

\* C38: markAbsent, markCompleted, the faculty's cancel and the grant by
\* booking id, sent by a faculty who does not own the slot of the booking,
\* are refused and change no booking, slot or permission; a cancel sent by a
\* student who is not the booking's student is refused likewise, and the
\* commit of a student's cancel changes no booking of another student.
C38_OwnersOnly ==
    [][/\ (\A p \in Procs : txn[p].pc = "idle") =>
             /\ \A f \in users \cap Faculty, b \in bookings :
                   SlotOf(World, b).faculty # f =>
                      \A call \in FacultyCalls(f, b.id) :
                         Result(call) # "ok" /\ Unchanged(call)
             /\ \A st \in users \cap Students, b \in bookings, r \in Reasons :
                   b.student # st =>
                      /\ Result(StudentCancelCall(st, b.id, r)) # "ok"
                      /\ Unchanged(StudentCancelCall(st, b.id, r))
       /\ \A p \in Procs, b \in bookings :
             (/\ txn[p].op = "student_cancel"
              /\ txn[p].pc # "idle"
              /\ txn'[p].pc = "idle"
              /\ b.student # txn[p].student)
             => b \in bookings']_vars

\* C39: after every sequence of requests no two slots of one faculty overlap
\* in time, and every slot starts before it ends.
C39_SlotsNeverOverlap ==
    /\ \A s \in slots : s.start_time < s.end_time
    /\ \A s \in slots, u \in slots :
          (s.faculty = u.faculty /\ s.id # u.id)
             => (s.end_time <= u.start_time \/ u.end_time <= s.start_time)

\* C40: the blocked-subjects view of a student lists a subject exactly when
\* there is a faculty for whom a create of the student on a free slot of that
\* faculty and subject, bookable otherwise, is refused for an absence.
C40_ViewAgreesWithEngine ==
    \A st \in users \cap Students, sub \in ALLOWED_SUBJECTS :
        (\E e \in blocked_subjects(World, st) : e.subject = sub)
           <=> \E f \in users \cap Faculty : LockedWith(World, st, f, sub)
====
